---- MODULE Spec2Model ----
(***************************************************************************)
(* A model of the jetsam command-line tool: the release sub-command        *)
(* (PerformRelease.execute), the helpers it calls (SubCommandHelpers.ts)   *)
(* and the audit sub-command (AuditDependencies.execute).                  *)
(*                                                                         *)
(* Text is modelled as a sequence of one-character strings, so that the    *)
(* regular expressions and the newline chomp of the source are computed.   *)
(* A JavaScript value that is a number, null or undefined is a record      *)
(* [t, v]; an optional string is a record [def, s].                        *)
(***************************************************************************)
EXTENDS Integers, Sequences, FiniteSets, TLC

VARIABLES runs, audit, build, child, ask

vars == <<runs, audit, build, child, ask>>

---------------------------------------------------------------------------
(* Bounds of the model *)

\* exit statuses a child of the release workflow ends with: 0..MaxExitStatus
MaxExitStatus == 2

\* raw exit statuses of `yarn audit`: 0..MaxAuditStatus
MaxAuditStatus == 16

---------------------------------------------------------------------------
(* JavaScript values *)

Num(n) == [t |-> "num", v |-> n]
Null == [t |-> "null", v |-> 0]
Undef == [t |-> "undef", v |-> 0]

IsNum(x) == x.t = "num"

\* x !== 0 and x != 0 agree on numbers, null and undefined: only the number 0 equals 0
NotZero(x) == ~(x.t = "num" /\ x.v = 0)

\* x ?? d
Coalesce(x, d) == IF x.t \in {"null", "undef"} THEN d ELSE x

\* ToNumber of a number or null (null converts to 0), as the relational operators use it
ToNumber(x) == IF x.t = "num" THEN x.v ELSE 0

\* an optional string: a string, or undefined
Str(s) == [def |-> TRUE, s |-> s]
NoStr == [def |-> FALSE, s |-> <<>>]

---------------------------------------------------------------------------
(* Text *)

Digits == {"0", "1", "2", "3", "4", "5", "6", "7", "8", "9"}

NL == "\n"

ReleasePrefix == <<"r", "e", "l", "e", "a", "s", "e", "/", "v">>

V123 == <<"1", ".", "2", ".", "3">>
V122 == <<"1", ".", "2", ".", "2">>
V124 == <<"1", ".", "2", ".", "4">>
V200 == <<"2", ".", "0", ".", "0">>

RECURSIVE ChompAll(_)
\* a chomp that removes every trailing newline
ChompAll(s) == IF Len(s) > 0 /\ s[Len(s)] = NL THEN ChompAll(SubSeq(s, 1, Len(s) - 1)) ELSE s

\* contents.replace(/\n$/, ''): without the m flag $ is the end of the text only
Chomp(s) == IF Len(s) > 0 /\ s[Len(s)] = NL THEN SubSeq(s, 1, Len(s) - 1) ELSE s

RECURSIVE SkipDigits(_, _)
\* the index after the longest run of \d starting at i
SkipDigits(s, i) == IF i <= Len(s) /\ s[i] \in Digits THEN SkipDigits(s, i + 1) ELSE i

\* the same expression with the closing $ anchor left out
ReleaseBranchExecUnanchored(s) ==
  LET p == Len(ReleasePrefix)
      a == SkipDigits(s, p + 1)
      b == SkipDigits(s, a + 1)
      c == SkipDigits(s, b + 1)
      ok == /\ Len(s) > p
            /\ SubSeq(s, 1, p) = ReleasePrefix
            /\ a > p + 1 /\ a <= Len(s) /\ s[a] = "."
            /\ b > a + 1 /\ b <= Len(s) /\ s[b] = "."
            /\ c > b + 1
  IN  [matched |-> ok, group |-> IF ok THEN SubSeq(s, p + 1, c - 1) ELSE <<>>]

\* /^release\/v(\d+\.\d+\.\d+)$/.exec(branch): whether it matched, and match[1].
\* Each \d+ is followed by a character that is no digit (or by the end), so the
\* greedy scan is the only way the expression can match.
ReleaseBranchExec(s) ==
  LET p == Len(ReleasePrefix)
      a == SkipDigits(s, p + 1)
      b == SkipDigits(s, a + 1)
      c == SkipDigits(s, b + 1)
      ok == /\ Len(s) > p
            /\ SubSeq(s, 1, p) = ReleasePrefix
            /\ a > p + 1 /\ a <= Len(s) /\ s[a] = "."
            /\ b > a + 1 /\ b <= Len(s) /\ s[b] = "."
            /\ c > b + 1 /\ c = Len(s) + 1
  IN  [matched |-> ok, group |-> IF ok THEN SubSeq(s, p + 1, Len(s)) ELSE <<>>]

RECURSIVE SkipChar(_, _, _)
\* the index after the longest run of the character ch starting at i
SkipChar(s, i, ch) == IF i <= Len(s) /\ s[i] = ch THEN SkipChar(s, i + 1, ch) ELSE i

\* new RegExp(`^#+ +${versionNum}$`, 'gm') against one line: versionNum is
\* spliced in unescaped, so each of its dots matches any one character.
\* versionNum starts with a digit, so #+ and ' +' can only match greedily.
HeadingLineMatches(line, versionNum) ==
  LET h == SkipChar(line, 1, "#")
      sp == SkipChar(line, h, " ")
  IN  /\ h > 1
      /\ sp > h
      /\ Len(line) - (sp - 1) = Len(versionNum)
      /\ \A k \in 1..Len(versionNum) :
           versionNum[k] = "." \/ line[sp - 1 + k] = versionNum[k]

\* regex.test(changelog): with the m flag ^ and $ match at every line
ChangelogHasEntry(lines, versionNum) ==
  \E i \in 1..Len(lines) : HeadingLineMatches(lines[i], versionNum)

---------------------------------------------------------------------------
(* The process runner (SubCommandHelpers.ts) *)

\* How executeCmdRaw's promise settles: rejected on the child's 'error' event,
\* or resolved with the exit code of the 'close' event (null when a signal ended
\* the child), or with undefined when spawn gave no child.
ExecOutcomes ==
  {[rej |-> FALSE, val |-> v] : v \in {Num(n) : n \in 0..MaxExitStatus} \cup {Null, Undef}}
    \cup {[rej |-> TRUE, val |-> Undef]}

executeCmdRaw(o) == o.val

\* result === undefined ? -1 : result
executeCmd(o) == IF executeCmdRaw(o) = Undef THEN Num(-1) ELSE executeCmdRaw(o)

executeCmdSilently(o) == IF executeCmdRaw(o) = Undef THEN Num(-1) ELSE executeCmdRaw(o)

\* What the child of an output-capturing call does: closes with a code after
\* writing out, fails to launch ('error'), or is not spawned at all.
OutputOutcomes(outs) ==
  {[k |-> "close", code |-> Num(0), out |-> s] : s \in outs}
    \cup {[k |-> "close", code |-> Num(1), out |-> <<>>],
          [k |-> "close", code |-> Null, out |-> <<>>],
          [k |-> "nospawn", code |-> Undef, out |-> <<>>],
          [k |-> "error", code |-> Undef, out |-> <<>>]}

\* resolves with the captured text when the child closes with code 0, with
\* undefined otherwise (the rejection on 'error' is the caller's o.k = "error")
getOutputFromCmdNoChomp(o) ==
  IF o.k = "close" /\ o.code = Num(0) THEN Str(o.out) ELSE NoStr

getOutputFromCmd(o) ==
  LET contents == getOutputFromCmdNoChomp(o)
  IN  IF contents.def THEN Str(Chomp(contents.s)) ELSE NoStr

---------------------------------------------------------------------------
(* The interactive prompt, as the release workflow uses it *)

YesNo == {"yes", "no"}

\* confirm: answer === 'yes', the answer being the line getInput accepted
confirm(answer) == answer = "yes"

ReleaseTypeChoices == {"major", "minor", "patch", "none"}

\* the line getInput accepts for the next release type: a choice, or the empty
\* line, which stands for the default
ReleaseTypeLines == ReleaseTypeChoices \cup {""}

\* getInput(prompt, choices, 'minor') on the accepted line
getInputReleaseType(line) == IF line = "" THEN "minor" ELSE line

---------------------------------------------------------------------------
(* Inputs of the release workflow *)

\* what `git branch --show-current` may print
BranchOutputs ==
  { ReleasePrefix \o V123 \o <<NL>>,
    ReleasePrefix \o V123 \o <<NL, NL>>,
    ReleasePrefix \o V123 \o <<"-", "r", "c", NL>>,
    <<"x">> \o ReleasePrefix \o V123 \o <<NL>>,
    ReleasePrefix \o <<"1", ".", "2", NL>>,
    <<"m", "a", "s", "t", "e", "r", NL>>,
    <<NL>> }

\* what `git diff-index --name-only` may print
DiffIndexOutputs == { <<>>, <<"a", ".", "t", "s", NL>> }

\* the most commits one side of the release branch has that the other lacks
MaxCommits == 2

\* the release branch against origin: how many commits the local branch has
\* that origin lacks (ahead), and how many origin has that it lacks (behind)
Repos == [ahead : 0..MaxCommits, behind : 0..MaxCommits]

DigitChars == <<"0", "1", "2", "3", "4", "5", "6", "7", "8", "9">>

RECURSIVE Decimal(_)
Decimal(n) == IF n < 10 THEN <<DigitChars[n + 1]>> ELSE Decimal(n \div 10) \o <<DigitChars[(n % 10) + 1]>>

\* git rev-list HEAD...origin/${branch} --count: the three-dot range is the
\* symmetric difference, the commits reachable from one side and not the other
RevListCount(repo) == repo.ahead + repo.behind

RevListPrints(repo) == Decimal(RevListCount(repo)) \o <<NL>>

\* what `git rev-list --count` may print
RevListOutputs == {RevListPrints(repo) : repo \in Repos}

\* what `semver -i` may print
SemverOutputs == { V124 \o <<NL>>, V200 \o <<NL>> }

\* package.json as read after the pull: unreadable or no JSON, the JSON value
\* null, or a value whose version property is a string or is missing
Manifests ==
  { [k |-> "unreadable", hasVersion |-> FALSE, version |-> <<>>],
    [k |-> "null", hasVersion |-> FALSE, version |-> <<>>],
    [k |-> "value", hasVersion |-> FALSE, version |-> <<>>],
    [k |-> "value", hasVersion |-> TRUE, version |-> V123],
    [k |-> "value", hasVersion |-> TRUE, version |-> V122] }

\* CHANGELOG.md: unreadable, or its lines
Changelogs ==
  { [readable |-> FALSE, lines |-> <<>>],
    [readable |-> TRUE, lines |-> << <<"#", " ", "L", "o", "g">>, <<"#", "#", " ", " ">> \o V123 >>],
    [readable |-> TRUE, lines |-> << <<"#", " ">> \o V124 >>],
    [readable |-> TRUE, lines |-> << <<"#", " ", "1", "x", "2", ".", "3">> >>] }

---------------------------------------------------------------------------
(* One run of PerformRelease.execute *)

\* the state of a run at entry to execute
NewRun(dryRun, ignoreChangelog, changelog) ==
  [ pc |-> "branch",
    dryRun |-> dryRun,
    ignoreChangelog |-> ignoreChangelog,
    changelog |-> changelog,
    branch |-> NoStr,
    versionNum |-> <<>>,
    exitStatus |-> Undef,
    nextReleaseType |-> "",
    nextVersionNum |-> NoStr,
    result |-> Undef,
    log |-> <<>>,
    msgs |-> <<>>,
    seen |-> [s \in {} |-> 0] ]

Finished(st) == st.pc \in {"done", "thrown"}

\* a child process launched ("cmd"), a console prompt shown ("prompt"), a file read ("read")
Log(st, kind, name, arg) ==
  [st EXCEPT !.log = Append(@, [kind |-> kind, name |-> name, arg |-> arg])]

\* console.error: the lines go to the error stream
Err(st, lines) ==
  [st EXCEPT !.msgs = @ \o [i \in 1..Len(lines) |-> [stream |-> "stderr", text |-> lines[i]]]]

\* console.log, the banner included: the lines go to the standard output
Out(st, lines) ==
  [st EXCEPT !.msgs = @ \o [i \in 1..Len(lines) |-> [stream |-> "stdout", text |-> lines[i]]]]

Return(st, v) == [st EXCEPT !.pc = "done", !.result = v]

Goto(st, pc) == [st EXCEPT !.pc = pc]

\* an awaited promise rejected, or an exception outside a try: execute rejects
Reject(st) == [st EXCEPT !.pc = "thrown"]

Aborting == "Aborting release procedure"

Success == "Successfully created release ${version}"

version(st) == <<"v">> \o st.versionNum

nextVersion(st) == <<"v">> \o st.nextVersionNum.s

newBranch(st) == <<"r", "e", "l", "e", "a", "s", "e", "/">> \o nextVersion(st)

\* the command whose exit status is not looked at
ExecStepIgnoresStatus(st, o, name, arg, failMsgs, okMsgs, okPc) ==
  LET s1 == Log(st, "cmd", name, arg)
      s2 == [s1 EXCEPT !.exitStatus = executeCmd(o)]
  IN  IF o.rej THEN Reject(s1) ELSE Goto(Out(s2, okMsgs), okPc)

\* exitStatus = await executeCmd(...); if (exitStatus !== 0) { console.error(...);
\* return exitStatus ?? 1; } and then what follows up to the next await
ExecStep(st, o, name, arg, failMsgs, okMsgs, okPc) ==
  LET s1 == Log(st, "cmd", name, arg)
      s2 == [s1 EXCEPT !.exitStatus = executeCmd(o)]
  IN  IF o.rej THEN Reject(s1)
      ELSE IF NotZero(s2.exitStatus)
        THEN Return(Err(s2, failMsgs), Coalesce(s2.exitStatus, Num(1)))
        ELSE Goto(Out(s2, okMsgs), okPc)

\* the confirmation whose answer is not looked at
ConfirmStepIgnoresAnswer(st, answer, prompt, okMsgs, okPc) ==
  Goto(Out(Log(st, "prompt", prompt, <<>>), okMsgs), okPc)

\* if (!(await confirm(...))) { console.log('Aborting release procedure'); return 1; }
ConfirmStep(st, answer, prompt, okMsgs, okPc) ==
  LET s1 == Log(st, "prompt", prompt, <<>>)
  IN  IF ~confirm(answer)
        THEN Return(Out(s1, <<Aborting>>), Num(1))
        ELSE Goto(Out(s1, okMsgs), okPc)

\* lines 61-73
BranchStep(st, o) ==
  LET s1 == Log(st, "cmd", "git branch --show-current", <<>>)
      branch == getOutputFromCmd(o)
      match == ReleaseBranchExec(branch.s)
  IN  IF o.k = "error" THEN Reject(s1)
      ELSE IF ~branch.def
        THEN Return(Err(s1, <<"Error: Failed to get the git branch name">>), Num(1))
      ELSE IF ~match.matched
        THEN Return(Err([s1 EXCEPT !.branch = branch],
                        <<"Error: Branch \"${branch}\" does not conform to the naming convention \"release/vX.Y.Z\"">>),
                    Num(1))
      ELSE Goto([s1 EXCEPT !.branch = branch, !.versionNum = match.group], "tagProbe")

\* the tag check that goes on although the tag exists
TagProbeStepNoCheck(st, o) ==
  LET s1 == Log(st, "cmd", "git rev-parse --verify --quiet", version(st))
      s2 == [s1 EXCEPT !.exitStatus = executeCmdSilently(o)]
  IN  IF o.rej THEN Reject(s1) ELSE Goto(s2, "diffIndex")

\* lines 75-83
TagProbeStep(st, o) ==
  LET s1 == Log(st, "cmd", "git rev-parse --verify --quiet", version(st))
      s2 == [s1 EXCEPT !.exitStatus = executeCmdSilently(o)]
  IN  IF o.rej THEN Reject(s1)
      ELSE IF ~NotZero(s2.exitStatus)
        THEN Return(Err(s2, <<"Error: The release tag \"${version}\" already exists">>), Num(1))
        ELSE Goto(s2, "diffIndex")

\* the clean-checkout check that reports modified files and goes on
DiffIndexStepGoesOn(st, o) ==
  LET s1 == Log(st, "cmd", "git diff-index --name-only --ignore-submodules HEAD --", <<>>)
      modifiedFiles == getOutputFromCmd(o)
  IN  IF o.k = "error" THEN Reject(s1)
      ELSE IF ~modifiedFiles.def
        THEN Return(Err(s1, <<"Error: Failed to determine if the checkout is clean">>), Num(1))
      ELSE IF modifiedFiles.s # <<>>
        THEN Goto(Err(s1, <<"Error: The checkout is not clean with at least one modified file:\n${fileList}\n">>),
                  "revList")
      ELSE Goto(s1, "revList")

\* lines 85-104
DiffIndexStep(st, o) ==
  LET s1 == Log(st, "cmd", "git diff-index --name-only --ignore-submodules HEAD --", <<>>)
      modifiedFiles == getOutputFromCmd(o)
  IN  IF o.k = "error" THEN Reject(s1)
      ELSE IF ~modifiedFiles.def
        THEN Return(Err(s1, <<"Error: Failed to determine if the checkout is clean">>), Num(1))
      ELSE IF modifiedFiles.s # <<>>
        THEN Return(Err(s1, <<"Error: The checkout is not clean with at least one modified file:\n${fileList}\n">>),
                    Num(1))
      ELSE Goto(s1, "revList")

\* lines 106-123
RevListStep(st, o) ==
  LET s1 == Log(st, "cmd", "git rev-list HEAD...origin/${branch} --ignore-submodules --count", st.branch.s)
      numCommitsAhead == getOutputFromCmd(o)
  IN  IF o.k = "error" THEN Reject(s1)
      ELSE IF ~numCommitsAhead.def
        THEN Return(Err(s1, <<"Error: Failed to determine if the local checkout is ahead of the origin">>),
                    Num(1))
      ELSE IF numCommitsAhead.s # <<"0">>
        THEN Return(Err(s1, <<"Error: The local branch is ${numCommitsAhead} commits ahead of the origin">>),
                    Num(1))
      ELSE Goto(s1, "confirmRelease")

\* lines 125-134
ConfirmReleaseStep(st, answer) ==
  ConfirmStep(st, answer, "Do you wish to release version \"${version}\"",
              IF st.dryRun THEN <<>> ELSE <<"banner: Updating local branch ${branch} from origin">>,
              IF st.dryRun THEN "manifest" ELSE "pullRelease")

\* lines 135-140
PullReleaseStep(st, o) ==
  ExecStep(st, o, "git pull --rebase", <<>>,
           <<"Error: Failed to update the local branch from the origin">>, <<>>, "manifest")

PreCommitBanner == "banner: Checking version ${version} passes pre-commit checks"

\* the cross-check that lets a manifest without a version pass
ManifestStepMissingVersionPasses(st, manifest) ==
  LET s1 == Log(st, "read", "package.json", <<>>)
  IN  IF manifest.k = "unreadable"
        THEN Return(Err(s1, <<"Error: Failed to read package.json: ${err}">>), Num(1))
      ELSE IF manifest.k = "null"
        THEN Reject(s1)
      ELSE IF manifest.hasVersion /\ manifest.version # st.versionNum
        THEN Return(Err(s1, <<"Error: Version in package.json does not match that being released: ${manifest.version} != ${versionNum}">>),
                    Num(1))
      ELSE Goto(s1, "changelog")

\* lines 142-157: the manifest is read after the pull
ManifestStep(st, manifest) ==
  LET s1 == Log(st, "read", "package.json", <<>>)
  IN  IF manifest.k = "unreadable"
        THEN Return(Err(s1, <<"Error: Failed to read package.json: ${err}">>), Num(1))
      ELSE IF manifest.k = "null"
        THEN Reject(s1)
      ELSE IF ~(manifest.hasVersion /\ manifest.version = st.versionNum)
        THEN Return(Err(s1, <<"Error: Version in package.json does not match that being released: ${manifest.version} != ${versionNum}">>),
                    Num(1))
      ELSE Goto(s1, "changelog")

\* lines 159-175
ChangelogStep(st) ==
  IF st.ignoreChangelog
    THEN Goto(Out(st, <<PreCommitBanner>>), "preCommit")
    ELSE LET s1 == Log(st, "read", "CHANGELOG.md", <<>>)
         IN  IF ~st.changelog.readable
               THEN Return(Err(s1, <<"Error: Failed to read CHANGELOG: ${err}">>), Num(1))
             ELSE IF ~ChangelogHasEntry(st.changelog.lines, st.versionNum)
               THEN Return(Err(s1, <<"Error: CHANGELOG does not contain an entry for version $versionNum">>),
                           Num(1))
             ELSE Goto(Out(s1, <<PreCommitBanner>>), "preCommit")

NextBranchBanner == "banner: Creating branch for next release"

\* the pre-commit step that goes on to the merge sequence in a dry run too
PreCommitStepNoDryRun(st, o) ==
  ExecStep(st, o, "yarn pre-commit", <<>>,
           <<"Error: Pre-commit checks failed on ${branch}">>,
           <<"banner: Ensuring master is up to date">>, "checkoutMaster")

\* lines 176-184 and, in a dry run, 253
PreCommitStep(st, o) ==
  ExecStep(st, o, "yarn pre-commit", <<>>,
           <<"Error: Pre-commit checks failed on ${branch}">>,
           IF st.dryRun THEN <<NextBranchBanner>> ELSE <<"banner: Ensuring master is up to date">>,
           IF st.dryRun THEN "nextType" ELSE "checkoutMaster")

\* lines 185-189
CheckoutMasterStep(st, o) ==
  ExecStep(st, o, "git checkout master", <<>>,
           <<"Error: Failed to change branch to master">>, <<>>, "pullMaster")

\* lines 191-198
PullMasterStep(st, o) ==
  ExecStep(st, o, "git pull --rebase", <<>>,
           <<"Error: Failed to pull latest changes to master from origin">>,
           <<"banner: Merging ${branch} into master">>, "merge")

\* lines 199-206
MergeStep(st, o) ==
  ExecStep(st, o, "git merge --no-ff --no-edit", st.branch.s,
           <<"Error: Failed to merge ${branch} into master">>,
           <<"banner: Checking master passes pre-commit checks after merge">>, "preCommitMerged")

UndoHint == "Error: Issue \"git reset --hard origin/master\" to undo merge"

\* lines 207-212
PreCommitMergedStep(st, o) ==
  ExecStep(st, o, "yarn pre-commit", <<>>,
           <<"Error: Pre-commit checks failed on master after merge", UndoHint>>,
           <<>>, "confirmPush")

\* lines 214-223
ConfirmPushStep(st, answer) ==
  ConfirmStep(st, answer, "Pushing release \"${version}\" to origin ... continue",
              <<"banner: Pushing result of merging ${version} to the origin">>, "push")

\* a failed push that prints a message of its own and no hint
PushStepNoHint(st, o) ==
  ExecStep(st, o, "git push", <<>>, <<"Error: Failed to push the merge to origin">>, <<>>, "confirmTag")

\* lines 224-229
PushStep(st, o) ==
  ExecStep(st, o, "git push", <<>>,
           <<"Error: Pre-commit checks failed on master after merge", UndoHint>>,
           <<>>, "confirmTag")

\* lines 231-239
ConfirmTagStep(st, answer) ==
  ConfirmStep(st, answer, "Tagging release \"${version}\" ... continue",
              <<"banner: Tagging release ${version}">>, "tag")

\* the tag whose failure is not looked at
TagStepIgnoresStatus(st, o) ==
  ExecStepIgnoresStatus(st, o, "git tag", version(st),
                        <<"Error: Failed to create local tag \"${version}\"">>, <<>>, "pushTag")

\* lines 240-244
TagStep(st, o) ==
  ExecStep(st, o, "git tag", version(st),
           <<"Error: Failed to create local tag \"${version}\"">>, <<>>, "pushTag")

\* lines 245-253
PushTagStep(st, o) ==
  ExecStep(st, o, "git push origin", version(st),
           <<"Error: Failed to push local tag \"${version}\" to origin">>,
           <<NextBranchBanner>>, "nextType")

\* lines 254-262
NextTypeStep(st, line) ==
  LET s1 == Log(st, "prompt", "What is the expected type of the next release", <<>>)
      nextReleaseType == getInputReleaseType(line)
  IN  IF nextReleaseType = "none"
        THEN Return(Out([s1 EXCEPT !.nextReleaseType = nextReleaseType], <<Success>>), Num(0))
        ELSE Goto([s1 EXCEPT !.nextReleaseType = nextReleaseType], "semver")

\* lines 264-270
SemverStep(st, o) ==
  LET s1 == Log(st, "cmd", "semver -i", <<st.nextReleaseType>> \o st.versionNum)
      nextVersionNum == getOutputFromCmd(o)
  IN  IF o.k = "error" THEN Reject(s1)
      ELSE IF ~nextVersionNum.def
        THEN Return(Err(s1, <<"Error: Failed to calculate the next releases number">>), Num(1))
      ELSE Goto([s1 EXCEPT !.nextVersionNum = nextVersionNum], "showLocal")

\* the local probe that goes on although the branch exists
ShowLocalStepNoCheck(st, o) ==
  LET s1 == Log(st, "cmd", "git show-branch", newBranch(st))
      s2 == [s1 EXCEPT !.exitStatus = executeCmdSilently(o)]
  IN  IF o.rej THEN Reject(s1) ELSE Goto(s2, "showRemote")

\* lines 272-278
ShowLocalStep(st, o) ==
  LET s1 == Log(st, "cmd", "git show-branch", newBranch(st))
      s2 == [s1 EXCEPT !.exitStatus = executeCmdSilently(o)]
  IN  IF o.rej THEN Reject(s1)
      ELSE IF ~NotZero(s2.exitStatus)
        THEN Return(Err(s2, <<"Error: A branch for release \"${nextVersion}\" already exists locally">>),
                    Num(1))
      ELSE Goto(s2, "showRemote")

\* the remote probe that goes on to create the branch in a dry run too
ShowRemoteStepNoDryRun(st, o) ==
  LET s1 == Log(st, "cmd", "git show-branch remotes/origin/", newBranch(st))
      s2 == [s1 EXCEPT !.exitStatus = executeCmdSilently(o)]
  IN  IF o.rej THEN Reject(s1)
      ELSE IF ~NotZero(s2.exitStatus)
        THEN Return(Err(s2, <<"Error: A branch for release \"${nextVersion}\" already exists on the origin">>),
                    Num(1))
      ELSE Goto(Out(s2, <<"banner: Creating release branch for ${nextVersion}">>), "checkoutNew")

\* lines 280-289 and, in a dry run, 332-334
ShowRemoteStep(st, o) ==
  LET s1 == Log(st, "cmd", "git show-branch remotes/origin/", newBranch(st))
      s2 == [s1 EXCEPT !.exitStatus = executeCmdSilently(o)]
  IN  IF o.rej THEN Reject(s1)
      ELSE IF ~NotZero(s2.exitStatus)
        THEN Return(Err(s2, <<"Error: A branch for release \"${nextVersion}\" already exists on the origin">>),
                    Num(1))
      ELSE IF st.dryRun
        THEN Return(Out(s2, <<Success>>), Num(0))
        ELSE Goto(Out(s2, <<"banner: Creating release branch for ${nextVersion}">>), "checkoutNew")

\* lines 290-294
CheckoutNewStep(st, o) ==
  ExecStep(st, o, "git checkout -b", newBranch(st),
           <<"Error: Failed to create release branch ${newBranch}">>, <<>>, "yarnVersion")

\* lines 296-308
YarnVersionStep(st, o) ==
  ExecStep(st, o, "yarn version --no-git-tag-version --no-commit-hooks --new-version",
           st.nextVersionNum.s,
           <<"Error: Failed to update package version to ${nextVersionNum}">>, <<>>, "commit")

\* lines 310-315
CommitStep(st, o) ==
  ExecStep(st, o, "git commit package.json -m Bump version to", st.nextVersionNum.s,
           <<"Error: Failed to commit version bump to package.json">>, <<>>, "confirmPushBranch")

\* lines 317-322
ConfirmPushBranchStep(st, answer) ==
  ConfirmStep(st, answer, "Pushing new branch \"${newBranch}\" to origin ... continue",
              <<>>, "pushBranch")

\* lines 324-334
PushBranchStep(st, o) ==
  LET s1 == ExecStep(st, o, "git push --set-upstream origin", newBranch(st),
                     <<"Error: Failed to push branch ${newBranch} to origin">>, <<Success>>, "done")
  IN  IF s1.pc = "done" /\ ~NotZero(s1.exitStatus) THEN Return(s1, Num(0)) ELSE s1

---------------------------------------------------------------------------
(* The runs as a state machine: one action for each await of execute *)

\* the awaits of execute, in program order
SiteOrder ==
  << "branch", "tagProbe", "diffIndex", "revList", "confirmRelease", "pullRelease",
     "manifest", "changelog", "preCommit", "checkoutMaster", "pullMaster", "merge",
     "preCommitMerged", "confirmPush", "push", "confirmTag", "tag", "pushTag",
     "nextType", "semver", "showLocal", "showRemote", "checkoutNew", "yarnVersion",
     "commit", "confirmPushBranch", "pushBranch" >>

Rank(pc) == CHOOSE i \in 1..Len(SiteOrder) : SiteOrder[i] = pc

\* A run keeps what it was given at each await. Runs that stand at the same await
\* are given the same outcome there (they are runs in the same repository, with
\* the same answers typed), and the run that is behind moves first.
Observe(st, site, obs) == [st EXCEPT !.seen = (site :> obs) @@ @]

AtSite(site) ==
  /\ \E r \in DOMAIN runs : runs[r].pc = site
  /\ \A r \in DOMAIN runs : ~Finished(runs[r]) => Rank(runs[r].pc) >= Rank(site)

\* what a run learns from a status-returning call: whether it rejected, and the status
ExecView(o) == [rej |-> o.rej, status |-> executeCmd(o)]

\* what a run learns from an existence probe: whether it rejected, and whether the status was 0
ProbeView(o) == [rej |-> o.rej, zero |-> ~NotZero(executeCmdSilently(o))]

\* what a run learns from an output-capturing call
OutputView(o) == [rej |-> o.k = "error", out |-> getOutputFromCmd(o)]

\* what a run learns from the rev-list, with the state of the branch it ran on
RevListView(o, repo) ==
  [rej |-> o.k = "error", out |-> getOutputFromCmd(o), ahead |-> repo.ahead, behind |-> repo.behind]

AnswerView(answer) == answer

ManifestView(manifest) == manifest

GitBranch ==
  /\ AtSite("branch")
  /\ \E o \in OutputOutcomes(BranchOutputs) :
       runs' = [r \in DOMAIN runs |->
                  IF runs[r].pc = "branch"
                    THEN BranchStep(Observe(runs[r], "branch", OutputView(o)), o)
                    ELSE runs[r]]
  /\ UNCHANGED <<audit, build, child, ask>>

TagProbe ==
  /\ AtSite("tagProbe")
  /\ \E o \in ExecOutcomes :
       runs' = [r \in DOMAIN runs |->
                  IF runs[r].pc = "tagProbe"
                    THEN TagProbeStep(Observe(runs[r], "tagProbe", ProbeView(o)), o)
                    ELSE runs[r]]
  /\ UNCHANGED <<audit, build, child, ask>>

DiffIndex ==
  /\ AtSite("diffIndex")
  /\ \E o \in OutputOutcomes(DiffIndexOutputs) :
       runs' = [r \in DOMAIN runs |->
                  IF runs[r].pc = "diffIndex"
                    THEN DiffIndexStep(Observe(runs[r], "diffIndex", OutputView(o)), o)
                    ELSE runs[r]]
  /\ UNCHANGED <<audit, build, child, ask>>

RevList ==
  /\ AtSite("revList")
  /\ \E repo \in Repos : \E o \in OutputOutcomes({RevListPrints(repo)}) :
       runs' = [r \in DOMAIN runs |->
                  IF runs[r].pc = "revList"
                    THEN RevListStep(Observe(runs[r], "revList", RevListView(o, repo)), o)
                    ELSE runs[r]]
  /\ UNCHANGED <<audit, build, child, ask>>

ConfirmRelease ==
  /\ AtSite("confirmRelease")
  /\ \E o \in YesNo :
       runs' = [r \in DOMAIN runs |->
                  IF runs[r].pc = "confirmRelease"
                    THEN ConfirmReleaseStep(Observe(runs[r], "confirmRelease", AnswerView(o)), o)
                    ELSE runs[r]]
  /\ UNCHANGED <<audit, build, child, ask>>

PullRelease ==
  /\ AtSite("pullRelease")
  /\ \E o \in ExecOutcomes :
       runs' = [r \in DOMAIN runs |->
                  IF runs[r].pc = "pullRelease"
                    THEN PullReleaseStep(Observe(runs[r], "pullRelease", ExecView(o)), o)
                    ELSE runs[r]]
  /\ UNCHANGED <<audit, build, child, ask>>

ReadManifest ==
  /\ AtSite("manifest")
  /\ \E o \in Manifests :
       runs' = [r \in DOMAIN runs |->
                  IF runs[r].pc = "manifest"
                    THEN ManifestStep(Observe(runs[r], "manifest", ManifestView(o)), o)
                    ELSE runs[r]]
  /\ UNCHANGED <<audit, build, child, ask>>

ReadChangelog ==
  /\ AtSite("changelog")
  /\ runs' = [r \in DOMAIN runs |->
                IF runs[r].pc = "changelog" THEN ChangelogStep(runs[r]) ELSE runs[r]]
  /\ UNCHANGED <<audit, build, child, ask>>

PreCommit ==
  /\ AtSite("preCommit")
  /\ \E o \in ExecOutcomes :
       runs' = [r \in DOMAIN runs |->
                  IF runs[r].pc = "preCommit"
                    THEN PreCommitStep(Observe(runs[r], "preCommit", ExecView(o)), o)
                    ELSE runs[r]]
  /\ UNCHANGED <<audit, build, child, ask>>

CheckoutMaster ==
  /\ AtSite("checkoutMaster")
  /\ \E o \in ExecOutcomes :
       runs' = [r \in DOMAIN runs |->
                  IF runs[r].pc = "checkoutMaster"
                    THEN CheckoutMasterStep(Observe(runs[r], "checkoutMaster", ExecView(o)), o)
                    ELSE runs[r]]
  /\ UNCHANGED <<audit, build, child, ask>>

PullMaster ==
  /\ AtSite("pullMaster")
  /\ \E o \in ExecOutcomes :
       runs' = [r \in DOMAIN runs |->
                  IF runs[r].pc = "pullMaster"
                    THEN PullMasterStep(Observe(runs[r], "pullMaster", ExecView(o)), o)
                    ELSE runs[r]]
  /\ UNCHANGED <<audit, build, child, ask>>

Merge ==
  /\ AtSite("merge")
  /\ \E o \in ExecOutcomes :
       runs' = [r \in DOMAIN runs |->
                  IF runs[r].pc = "merge"
                    THEN MergeStep(Observe(runs[r], "merge", ExecView(o)), o)
                    ELSE runs[r]]
  /\ UNCHANGED <<audit, build, child, ask>>

PreCommitMerged ==
  /\ AtSite("preCommitMerged")
  /\ \E o \in ExecOutcomes :
       runs' = [r \in DOMAIN runs |->
                  IF runs[r].pc = "preCommitMerged"
                    THEN PreCommitMergedStep(Observe(runs[r], "preCommitMerged", ExecView(o)), o)
                    ELSE runs[r]]
  /\ UNCHANGED <<audit, build, child, ask>>

ConfirmPush ==
  /\ AtSite("confirmPush")
  /\ \E o \in YesNo :
       runs' = [r \in DOMAIN runs |->
                  IF runs[r].pc = "confirmPush"
                    THEN ConfirmPushStep(Observe(runs[r], "confirmPush", AnswerView(o)), o)
                    ELSE runs[r]]
  /\ UNCHANGED <<audit, build, child, ask>>

Push ==
  /\ AtSite("push")
  /\ \E o \in ExecOutcomes :
       runs' = [r \in DOMAIN runs |->
                  IF runs[r].pc = "push"
                    THEN PushStep(Observe(runs[r], "push", ExecView(o)), o)
                    ELSE runs[r]]
  /\ UNCHANGED <<audit, build, child, ask>>

ConfirmTag ==
  /\ AtSite("confirmTag")
  /\ \E o \in YesNo :
       runs' = [r \in DOMAIN runs |->
                  IF runs[r].pc = "confirmTag"
                    THEN ConfirmTagStep(Observe(runs[r], "confirmTag", AnswerView(o)), o)
                    ELSE runs[r]]
  /\ UNCHANGED <<audit, build, child, ask>>

Tag ==
  /\ AtSite("tag")
  /\ \E o \in ExecOutcomes :
       runs' = [r \in DOMAIN runs |->
                  IF runs[r].pc = "tag"
                    THEN TagStep(Observe(runs[r], "tag", ExecView(o)), o)
                    ELSE runs[r]]
  /\ UNCHANGED <<audit, build, child, ask>>

PushTag ==
  /\ AtSite("pushTag")
  /\ \E o \in ExecOutcomes :
       runs' = [r \in DOMAIN runs |->
                  IF runs[r].pc = "pushTag"
                    THEN PushTagStep(Observe(runs[r], "pushTag", ExecView(o)), o)
                    ELSE runs[r]]
  /\ UNCHANGED <<audit, build, child, ask>>

NextType ==
  /\ AtSite("nextType")
  /\ \E o \in ReleaseTypeLines :
       runs' = [r \in DOMAIN runs |->
                  IF runs[r].pc = "nextType"
                    THEN NextTypeStep(Observe(runs[r], "nextType", getInputReleaseType(o)), o)
                    ELSE runs[r]]
  /\ UNCHANGED <<audit, build, child, ask>>

Semver ==
  /\ AtSite("semver")
  /\ \E o \in OutputOutcomes(SemverOutputs) :
       runs' = [r \in DOMAIN runs |->
                  IF runs[r].pc = "semver"
                    THEN SemverStep(Observe(runs[r], "semver", OutputView(o)), o)
                    ELSE runs[r]]
  /\ UNCHANGED <<audit, build, child, ask>>

ShowLocal ==
  /\ AtSite("showLocal")
  /\ \E o \in ExecOutcomes :
       runs' = [r \in DOMAIN runs |->
                  IF runs[r].pc = "showLocal"
                    THEN ShowLocalStep(Observe(runs[r], "showLocal", ProbeView(o)), o)
                    ELSE runs[r]]
  /\ UNCHANGED <<audit, build, child, ask>>

ShowRemote ==
  /\ AtSite("showRemote")
  /\ \E o \in ExecOutcomes :
       runs' = [r \in DOMAIN runs |->
                  IF runs[r].pc = "showRemote"
                    THEN ShowRemoteStep(Observe(runs[r], "showRemote", ProbeView(o)), o)
                    ELSE runs[r]]
  /\ UNCHANGED <<audit, build, child, ask>>

CheckoutNew ==
  /\ AtSite("checkoutNew")
  /\ \E o \in ExecOutcomes :
       runs' = [r \in DOMAIN runs |->
                  IF runs[r].pc = "checkoutNew"
                    THEN CheckoutNewStep(Observe(runs[r], "checkoutNew", ExecView(o)), o)
                    ELSE runs[r]]
  /\ UNCHANGED <<audit, build, child, ask>>

YarnVersion ==
  /\ AtSite("yarnVersion")
  /\ \E o \in ExecOutcomes :
       runs' = [r \in DOMAIN runs |->
                  IF runs[r].pc = "yarnVersion"
                    THEN YarnVersionStep(Observe(runs[r], "yarnVersion", ExecView(o)), o)
                    ELSE runs[r]]
  /\ UNCHANGED <<audit, build, child, ask>>

Commit ==
  /\ AtSite("commit")
  /\ \E o \in ExecOutcomes :
       runs' = [r \in DOMAIN runs |->
                  IF runs[r].pc = "commit"
                    THEN CommitStep(Observe(runs[r], "commit", ExecView(o)), o)
                    ELSE runs[r]]
  /\ UNCHANGED <<audit, build, child, ask>>

ConfirmPushBranch ==
  /\ AtSite("confirmPushBranch")
  /\ \E o \in YesNo :
       runs' = [r \in DOMAIN runs |->
                  IF runs[r].pc = "confirmPushBranch"
                    THEN ConfirmPushBranchStep(Observe(runs[r], "confirmPushBranch", AnswerView(o)), o)
                    ELSE runs[r]]
  /\ UNCHANGED <<audit, build, child, ask>>

PushBranch ==
  /\ AtSite("pushBranch")
  /\ \E o \in ExecOutcomes :
       runs' = [r \in DOMAIN runs |->
                  IF runs[r].pc = "pushBranch"
                    THEN PushBranchStep(Observe(runs[r], "pushBranch", ExecView(o)), o)
                    ELSE runs[r]]
  /\ UNCHANGED <<audit, build, child, ask>>

NoAudit == [pc |-> "off"]

\* the other sub-commands and helpers are not called during a release
NoBuild == [pc |-> "off"]
NoChild == [pc |-> "off"]
NoAsk == [pc |-> "off"]

\* one run, with any flags and any changelog
Init ==
  /\ \E d \in BOOLEAN, i \in BOOLEAN, c \in Changelogs : runs = (1 :> NewRun(d, i, c))
  /\ audit = NoAudit
  /\ build = NoBuild /\ child = NoChild /\ ask = NoAsk

\* two runs in the same repository with the same answers typed: a dry run and a
\* real run of the same flags and changelog, or two runs of the same flags
\* whose changelogs are any two
PairInit ==
  /\ \/ \E i \in BOOLEAN, c \in Changelogs :
          runs = (1 :> NewRun(TRUE, i, c)) @@ (2 :> NewRun(FALSE, i, c))
     \/ \E d \in BOOLEAN, i \in BOOLEAN, c1 \in Changelogs, c2 \in Changelogs :
          runs = (1 :> NewRun(d, i, c1)) @@ (2 :> NewRun(d, i, c2))
  /\ audit = NoAudit
  /\ build = NoBuild /\ child = NoChild /\ ask = NoAsk

Next ==
  \/ GitBranch \/ TagProbe \/ DiffIndex \/ RevList \/ ConfirmRelease
  \/ PullRelease \/ ReadManifest \/ ReadChangelog \/ PreCommit
  \/ CheckoutMaster \/ PullMaster \/ Merge \/ PreCommitMerged
  \/ ConfirmPush \/ Push \/ ConfirmTag \/ Tag \/ PushTag
  \/ NextType \/ Semver \/ ShowLocal \/ ShowRemote
  \/ CheckoutNew \/ YarnVersion \/ Commit \/ ConfirmPushBranch \/ PushBranch

Spec == Init /\ [][Next]_vars

PairSpec == PairInit /\ [][Next]_vars

---------------------------------------------------------------------------
(* The audit sub-command (jetsam-subcmd-audit.ts) *)

Severities == <<"info", "low", "moderate", "high", "critical">>

SeverityRank(s) == CHOOSE i \in 1..Len(Severities) : Severities[i] = s

\* an option that was not given on the command line
NotGiven == "undefined"

SeverityChoices == {Severities[i] : i \in 1..Len(Severities)}

YarnAuditSeverityBits ==
  [info |-> 1, low |-> 2, moderate |-> 4, high |-> 8, critical |-> 15]

\* how executeCmdRaw settles for `yarn audit`
AuditExecOutcomes ==
  {[rej |-> FALSE, val |-> v] : v \in {Num(n) : n \in 0..MaxAuditStatus} \cup {Null, Undef}}
    \cup {[rej |-> TRUE, val |-> Undef]}

\* lines 81-87
AuditYarnArgs(level, json) ==
  <<"audit">> \o (IF level # NotGiven THEN <<"--level", level>> ELSE <<>>)
              \o (IF json THEN <<"--json">> ELSE <<>>)

IgnoreNotice == "Info: Ignoring issues found below severity \"${minSeverity}\" as requested"

\* whether lines 95 and 100 find the issues suppressible, with <= for <
AuditSuppressesAtOrBelow(minSeverity, exitStatus) ==
  /\ minSeverity # NotGiven
  /\ NotZero(exitStatus)
  /\ ToNumber(exitStatus) <= YarnAuditSeverityBits[minSeverity]

\* whether lines 95 and 100 find the issues suppressible: minSeverity !== undefined
\* && exitStatus != 0, and then exitStatus < minStatusBit (minStatusBit is defined
\* for every choice yargs lets through)
AuditSuppresses(minSeverity, exitStatus) ==
  /\ minSeverity # NotGiven
  /\ NotZero(exitStatus)
  /\ ToNumber(exitStatus) < YarnAuditSeverityBits[minSeverity]

\* a JavaScript value handed to spawn as an element of its args array: a string,
\* an array of strings, or an object (its keys and values, flattened)
JsString(s) == [t |-> "string", v |-> <<s>>]
JsArray(a) == [t |-> "array", v |-> a]
JsObject(kv) == [t |-> "object", v |-> kv]

\* executeCmd(cmd, ...args): the rest parameter is the array of the actual
\* arguments after cmd, each kept as the value it is, and executeCmdRaw(cmd, args)
\* hands that array to spawn with no opts, so that opts is { stdio: 'inherit' }
executeCmdSpawn(actuals) == [args |-> actuals, stdio |-> "inherit"]

\* line 90: executeCmd('yarn', yarnArgs, { stdio: 'inherit' })
AuditSpawn(yarnArgs) ==
  executeCmdSpawn(<<JsArray(yarnArgs), JsObject(<<"stdio", "inherit">>)>>)

\* lines 79-109, on the outcome o of the `yarn audit` child
AuditExecuteStep(st, o) ==
  LET s1 == [st EXCEPT !.yarnArgs = AuditYarnArgs(st.level, st.json),
                       !.spawn = AuditSpawn(AuditYarnArgs(st.level, st.json))]
      raw == executeCmd(o)
  IN  IF o.rej THEN [s1 EXCEPT !.pc = "thrown"]
      ELSE IF AuditSuppresses(st.minimum, raw)
        THEN [s1 EXCEPT !.pc = "done", !.raw = raw, !.result = Num(0), !.msgs = Append(@, [stream |-> "stdout", text |-> IgnoreNotice])]
        ELSE [s1 EXCEPT !.pc = "done", !.raw = raw, !.result = raw]

AuditExecute ==
  /\ audit.pc = "start"
  /\ \E o \in AuditExecOutcomes : audit' = AuditExecuteStep(audit, o)
  /\ UNCHANGED <<runs, build, child, ask>>

NoRuns == [r \in {} |-> 0]

\* the audit sub-command called with any of the options yargs accepts
AuditInit ==
  /\ runs = NoRuns
  /\ build = NoBuild /\ child = NoChild /\ ask = NoAsk
  /\ \E level \in SeverityChoices \cup {NotGiven}, json \in BOOLEAN,
        minimum \in SeverityChoices \cup {NotGiven} :
       audit = [pc |-> "start", level |-> level, json |-> json, minimum |-> minimum,
                yarnArgs |-> <<>>, spawn |-> [args |-> <<>>, stdio |-> ""],
                raw |-> Undef, result |-> Undef, msgs |-> <<>>]

AuditNext == AuditExecute

AuditSpec == AuditInit /\ [][AuditNext]_vars

---------------------------------------------------------------------------
(* What the properties speak of *)

RunIds == DOMAIN runs

\* the names of the commands a run launched, in order
CmdNames(st) ==
  LET cmds == SelectSeq(st.log, LAMBDA e : e.kind = "cmd")
  IN  [i \in 1..Len(cmds) |-> cmds[i].name]

\* the prompts a run showed, in order
PromptNames(st) ==
  LET ps == SelectSeq(st.log, LAMBDA e : e.kind = "prompt")
  IN  [i \in 1..Len(ps) |-> ps[i].name]

Range(f) == {f[i] : i \in DOMAIN f}

\* git pull, checkout, merge, push, tag and commit
GitMutatingCmds ==
  { "git pull --rebase", "git checkout master", "git merge --no-ff --no-edit", "git push",
    "git tag", "git push origin", "git checkout -b", "git commit package.json -m Bump version to",
    "git push --set-upstream origin" }

MutatingCmds ==
  GitMutatingCmds \cup {"yarn version --no-git-tag-version --no-commit-hooks --new-version"}

AllDigits(s) == Len(s) > 0 /\ \A i \in 1..Len(s) : s[i] \in Digits

\* s is release/v<digits>.<digits>.<digits>, said without the scanner
IsReleaseBranchName(s) ==
  LET p == Len(ReleasePrefix)
  IN  /\ Len(s) > p
      /\ SubSeq(s, 1, p) = ReleasePrefix
      /\ \E i, j \in (p + 1)..Len(s) :
           /\ i < j
           /\ s[i] = "." /\ s[j] = "."
           /\ AllDigits(SubSeq(s, p + 1, i - 1))
           /\ AllDigits(SubSeq(s, i + 1, j - 1))
           /\ AllDigits(SubSeq(s, j + 1, Len(s)))

\* the version number of a release branch name
VersionOf(s) == SubSeq(s, Len(ReleasePrefix) + 1, Len(s))

Saw(st, site) == site \in DOMAIN st.seen

\* the branch query gave a release branch name
BranchValid(st) ==
  /\ Saw(st, "branch") /\ st.seen["branch"].out.def
  /\ IsReleaseBranchName(st.seen["branch"].out.s)

\* some line of the changelog is #s, spaces and then the version number itself
HasExactHeading(changelog, v) ==
  /\ changelog.readable
  /\ \E i \in 1..Len(changelog.lines) :
       \E h, sp \in 1..Len(changelog.lines[i]) :
         /\ changelog.lines[i] = [k \in 1..h |-> "#"] \o [k \in 1..sp |-> " "] \o v

\* steps 1-9 found everything valid and the release was confirmed
AllValidAndConfirmed(st) ==
  /\ BranchValid(st)
  /\ Saw(st, "tagProbe") /\ ~st.seen["tagProbe"].rej /\ ~st.seen["tagProbe"].zero
  /\ Saw(st, "diffIndex") /\ st.seen["diffIndex"].out = Str(<<>>)
  /\ Saw(st, "revList") /\ st.seen["revList"].out = Str(<<"0">>)
  /\ Saw(st, "confirmRelease") /\ st.seen["confirmRelease"] = "yes"
  /\ Saw(st, "manifest") /\ st.seen["manifest"].k = "value"
  /\ st.seen["manifest"].hasVersion
  /\ st.seen["manifest"].version = VersionOf(st.seen["branch"].out.s)
  /\ HasExactHeading(st.changelog, VersionOf(st.seen["branch"].out.s))
  /\ Saw(st, "preCommit") /\ st.seen["preCommit"] = [rej |-> FALSE, status |-> Num(0)]
  /\ Saw(st, "nextType")

\* no next branch is asked for, or its version is computed and it exists nowhere
NextBranchFree(st) ==
  \/ st.seen["nextType"] = "none"
  \/ /\ Saw(st, "semver") /\ st.seen["semver"].out.def
     /\ Saw(st, "showLocal") /\ st.seen["showLocal"] = [rej |-> FALSE, zero |-> FALSE]
     /\ Saw(st, "showRemote") /\ st.seen["showRemote"] = [rej |-> FALSE, zero |-> FALSE]

---------------------------------------------------------------------------
(* C1 *)

\* C1, as stated: a dry run launches no mutating command whatever the commands
\* and answers give, and returns 0 when branch, checkout, origin, manifest and
\* changelog are valid, pre-commit passes and the prompts are answered.
C1_DryRunReturnsZero ==
  \A r \in RunIds :
    runs[r].dryRun =>
      /\ Range(CmdNames(runs[r])) \cap MutatingCmds = {}
      /\ (Finished(runs[r]) /\ AllValidAndConfirmed(runs[r]))
           => runs[r].result = Num(0)

\* C1, amended: a dry run launches no mutating command whatever the commands
\* and answers give; and it returns 0 when steps 1-9 find everything valid, the
\* release is confirmed and the next release type is 'none' or else semver gives
\* the next version and neither probe finds the next branch.
C1_DryRunNeverMutates ==
  \A r \in RunIds :
    runs[r].dryRun =>
      /\ Range(CmdNames(runs[r])) \cap MutatingCmds = {}
      /\ (Finished(runs[r]) /\ AllValidAndConfirmed(runs[r]) /\ NextBranchFree(runs[r]))
           => runs[r].pc = "done" /\ runs[r].result = Num(0)

\* a dry run that went through both next-branch probes and returned 0
C1_Witness ==
  \E r \in RunIds :
    /\ runs[r].dryRun /\ runs[r].pc = "done" /\ runs[r].result = Num(0)
    /\ AllValidAndConfirmed(runs[r])
    /\ Saw(runs[r], "showRemote")

---------------------------------------------------------------------------
(* C2 *)

ReleasePrompt == "Do you wish to release version \"${version}\""

NextTypePrompt == "What is the expected type of the next release"

\* the confirmations that stand inside the if (!dryRun) blocks
RealRunOnlyPrompts ==
  { "Pushing release \"${version}\" to origin ... continue",
    "Tagging release \"${version}\" ... continue",
    "Pushing new branch \"${newBranch}\" to origin ... continue" }

\* a dry run (1) and a real run (2) with the same flags and changelog
IsDryRealPair ==
  /\ RunIds = {1, 2}
  /\ runs[1].dryRun /\ ~runs[2].dryRun
  /\ runs[1].ignoreChangelog = runs[2].ignoreChangelog
  /\ runs[1].changelog = runs[2].changelog

IsPrefix(s, t) == Len(s) <= Len(t) /\ s = SubSeq(t, 1, Len(s))

RECURSIVE WithoutRealRunOnly(_, _)
\* a real run's log without what stands inside the if (!dryRun) blocks: the
\* mutating commands, the three confirmations and the second pre-commit
WithoutRealRunOnly(log, preCommits) ==
  IF log = <<>> THEN <<>>
  ELSE LET e == Head(log)
           isPreCommit == e.kind = "cmd" /\ e.name = "yarn pre-commit"
           drop == \/ e.kind = "cmd" /\ e.name \in MutatingCmds
                   \/ e.kind = "prompt" /\ e.name \in RealRunOnlyPrompts
                   \/ isPreCommit /\ preCommits >= 1
       IN  (IF drop THEN <<>> ELSE <<e>>)
             \o WithoutRealRunOnly(Tail(log), IF isPreCommit THEN preCommits + 1 ELSE preCommits)

\* C2, as stated: a dry run and a real run that see the same check results and
\* the same answers present the same sequence of prompts (here for the pairs in
\* which both runs returned 0).
C2_SamePrompts ==
  (IsDryRealPair /\ \A r \in RunIds : runs[r].pc = "done" /\ runs[r].result = Num(0))
    => PromptNames(runs[1]) = PromptNames(runs[2])

\* C2, amended: the dry run presents only the release confirmation and the
\* next-release-type prompt, with the answers the real run gets; it skips the
\* push, tag and new-branch-push confirmations and the post-merge pre-commit
\* together with the mutating commands. The real run's prompts other than the
\* three skipped ones are a prefix of the dry run's, and when the real run
\* returns 0 the dry run's log is the real run's without the skipped entries.
C2_DryRunSkipsConfirmations ==
  (IsDryRealPair /\ \A r \in RunIds : Finished(runs[r])) =>
    /\ Range(PromptNames(runs[1])) \subseteq {ReleasePrompt, NextTypePrompt}
    /\ IsPrefix(SelectSeq(PromptNames(runs[2]), LAMBDA n : n \notin RealRunOnlyPrompts),
                PromptNames(runs[1]))
    /\ \A site \in {"confirmRelease", "nextType"} :
         (Saw(runs[1], site) /\ Saw(runs[2], site)) => runs[1].seen[site] = runs[2].seen[site]
    /\ (runs[2].pc = "done" /\ runs[2].result = Num(0)) =>
         /\ runs[1].log = WithoutRealRunOnly(runs[2].log, 0)
         /\ runs[1].result = Num(0)

\* a pair whose real run asked all five prompts and whose dry run asked two
C2_Witness ==
  /\ IsDryRealPair
  /\ \A r \in RunIds : runs[r].pc = "done" /\ runs[r].result = Num(0)
  /\ Len(PromptNames(runs[2])) = 5
  /\ Len(PromptNames(runs[1])) = 2

---------------------------------------------------------------------------
(* C3 *)

BranchQuery == [kind |-> "cmd", name |-> "git branch --show-current", arg |-> <<>>]

\* C3: when the branch query gives no name, or a name that is not
\* release/v<digits>.<digits>.<digits>, the run returns 1 and the branch query
\* is all it has launched: no probe, no prompt, no mutating command.
C3_BadBranchStopsAtStepOne ==
  \A r \in RunIds :
    (Saw(runs[r], "branch") /\ ~runs[r].seen["branch"].rej /\ ~BranchValid(runs[r])) =>
      /\ runs[r].pc = "done"
      /\ runs[r].result = Num(1)
      /\ runs[r].log = <<BranchQuery>>

\* a run stopped at step 1 by a name with a suffix after the version
C3_Witness ==
  \E r \in RunIds :
    /\ Saw(runs[r], "branch")
    /\ runs[r].seen["branch"].out = Str(ReleasePrefix \o V123 \o <<"-", "r", "c">>)
    /\ runs[r].pc = "done" /\ runs[r].result = Num(1)

---------------------------------------------------------------------------
(* C4 *)

\* C4: on a valid release branch, when the tag probe exits with 0 the run
\* returns 1 and the probe is the last thing it has done: the log is the
\* branch query and the probe of v<version>.
C4_ExistingTagStopsAtStepTwo ==
  \A r \in RunIds :
    (BranchValid(runs[r]) /\ Saw(runs[r], "tagProbe") /\ runs[r].seen["tagProbe"].zero) =>
      /\ runs[r].pc = "done"
      /\ runs[r].result = Num(1)
      /\ runs[r].log =
           << BranchQuery,
              [kind |-> "cmd", name |-> "git rev-parse --verify --quiet",
               arg |-> <<"v">> \o VersionOf(runs[r].seen["branch"].out.s)] >>

\* a run stopped by an existing tag
C4_Witness ==
  \E r \in RunIds :
    /\ BranchValid(runs[r]) /\ Saw(runs[r], "tagProbe") /\ runs[r].seen["tagProbe"].zero
    /\ runs[r].pc = "done"

---------------------------------------------------------------------------
(* C5 *)

VersionMismatch ==
  "Error: Version in package.json does not match that being released: ${manifest.version} != ${versionNum}"

\* the manifest was parsed and its version is not the branch's version number
ManifestDiffers(st) ==
  /\ BranchValid(st) /\ Saw(st, "manifest")
  /\ st.seen["manifest"].k = "value"
  /\ ~(st.seen["manifest"].hasVersion
       /\ st.seen["manifest"].version = VersionOf(st.seen["branch"].out.s))

LastMsg(st) == st.msgs[Len(st.msgs)]

\* C5, as stated: in every run, dry or not, whose manifest version differs from
\* the branch's version number, the run returns non-zero with the
\* version-mismatch diagnostic and has launched no git-mutating command.
C5_MismatchNoGitMutation ==
  \A r \in RunIds :
    ManifestDiffers(runs[r]) =>
      /\ runs[r].pc = "done" /\ runs[r].result # Num(0)
      /\ LastMsg(runs[r]) = [stream |-> "stderr", text |-> VersionMismatch]
      /\ Range(CmdNames(runs[r])) \cap GitMutatingCmds = {}

\* C5, amended: such a run returns non-zero (1) with the version-mismatch
\* diagnostic; a dry run has launched no git-mutating command, and a real run
\* has launched exactly one, the rebase-pull of the release branch of step 6,
\* which precedes the reading of the manifest.
C5_MismatchOnlyThePull ==
  \A r \in RunIds :
    ManifestDiffers(runs[r]) =>
      /\ runs[r].pc = "done" /\ runs[r].result = Num(1)
      /\ LastMsg(runs[r]) = [stream |-> "stderr", text |-> VersionMismatch]
      /\ SelectSeq(CmdNames(runs[r]), LAMBDA n : n \in MutatingCmds)
           = IF runs[r].dryRun THEN <<>> ELSE <<"git pull --rebase">>

\* a real run stopped by a manifest version that differs, after its pull
C5_Witness ==
  \E r \in RunIds :
    /\ ManifestDiffers(runs[r]) /\ ~runs[r].dryRun
    /\ runs[r].seen["manifest"].version = V122
    /\ runs[r].pc = "done"

---------------------------------------------------------------------------
(* C6 *)

\* two runs with the same flags, whose changelogs may differ
IsSameFlagsPair ==
  /\ RunIds = {1, 2}
  /\ runs[1].dryRun = runs[2].dryRun
  /\ runs[1].ignoreChangelog = runs[2].ignoreChangelog

ChangelogRead == [kind |-> "read", name |-> "CHANGELOG.md", arg |-> <<>>]

\* the first half of C6: with --ignore-changelog, two runs that differ only in
\* the changelog launch the same commands, show the same prompts, print the
\* same lines and end with the same result
C6_IgnoredChangelogIsNotRead ==
  (IsSameFlagsPair /\ runs[1].ignoreChangelog /\ \A r \in RunIds : Finished(runs[r])) =>
    /\ runs[1].log = runs[2].log
    /\ runs[1].msgs = runs[2].msgs
    /\ runs[1].pc = runs[2].pc
    /\ runs[1].result = runs[2].result

\* C6, as stated: with --ignore-changelog the outcome does not depend on the
\* changelog; without the flag, a changelog that is unreadable or has no
\* heading that is the version number makes the run return 1 before pre-commit
\* verification.
C6_ChangelogGate ==
  /\ C6_IgnoredChangelogIsNotRead
  /\ \A r \in RunIds :
       ( /\ ~runs[r].ignoreChangelog
         /\ BranchValid(runs[r])
         /\ ChangelogRead \in Range(runs[r].log)
         /\ ~HasExactHeading(runs[r].changelog, VersionOf(runs[r].seen["branch"].out.s)) )
       => /\ runs[r].pc = "done"
          /\ runs[r].result = Num(1)
          /\ "yarn pre-commit" \notin Range(CmdNames(runs[r]))

---------------------------------------------------------------------------
(* C7 *)

\* the awaits of executeCmd
ExecSites ==
  { "pullRelease", "preCommit", "checkoutMaster", "pullMaster", "merge", "preCommitMerged",
    "push", "tag", "pushTag", "checkoutNew", "yarnVersion", "commit", "pushBranch" }

ConfirmSites == {"confirmRelease", "confirmPush", "confirmTag", "confirmPushBranch"}

\* a check of steps 1-4 or 7 found its precondition violated
PreconditionViolated(st) ==
  \/ Saw(st, "branch") /\ ~st.seen["branch"].rej /\ ~BranchValid(st)
  \/ Saw(st, "tagProbe") /\ st.seen["tagProbe"].zero
  \/ Saw(st, "diffIndex") /\ ~st.seen["diffIndex"].rej /\ st.seen["diffIndex"].out # Str(<<>>)
  \/ Saw(st, "revList") /\ ~st.seen["revList"].rej /\ st.seen["revList"].out # Str(<<"0">>)
  \/ Saw(st, "manifest") /\ st.seen["manifest"].k = "unreadable"
  \/ ManifestDiffers(st)

---------------------------------------------------------------------------
(* C8 *)

PromptOf(site) ==
  CASE site = "confirmRelease" -> ReleasePrompt
    [] site = "confirmPush" -> "Pushing release \"${version}\" to origin ... continue"
    [] site = "confirmTag" -> "Tagging release \"${version}\" ... continue"
    [] site = "confirmPushBranch" -> "Pushing new branch \"${newBranch}\" to origin ... continue"

\* C8: when a yes/no confirmation is answered 'no', the run returns 1, the last
\* line it prints is 'Aborting release procedure' on the standard output,
\* nothing went to the error stream, and the declined prompt is the last thing
\* in its log: no command and no prompt follows.
C8_DeclineAborts ==
  \A r \in RunIds : \A site \in ConfirmSites :
    (Saw(runs[r], site) /\ runs[r].seen[site] = "no") =>
      /\ runs[r].pc = "done"
      /\ runs[r].result = Num(1)
      /\ LastMsg(runs[r]) = [stream |-> "stdout", text |-> Aborting]
      /\ \A i \in 1..Len(runs[r].msgs) : runs[r].msgs[i].stream # "stderr"
      /\ runs[r].log[Len(runs[r].log)] = [kind |-> "prompt", name |-> PromptOf(site), arg |-> <<>>]

\* a real run that declined the last confirmation, the push of the new branch
C8_Witness ==
  \E r \in RunIds :
    /\ Saw(runs[r], "confirmPushBranch") /\ runs[r].seen["confirmPushBranch"] = "no"
    /\ runs[r].pc = "done" /\ runs[r].result = Num(1)

---------------------------------------------------------------------------
(* C9 *)

\* C9: for a raw status that is a number, the audit sub-command returns 0
\* exactly when the raw status is 0, or a minimum is given and the raw status is
\* non-zero and strictly less than the minimum's bit value; otherwise it returns
\* the raw status unchanged; raw 4 with minimum high returns 0 and raw 9 with
\* minimum high returns 9; with no minimum the result is the raw status.
C9_AuditResult ==
  audit.pc = "done" =>
    /\ IsNum(audit.raw) =>
         /\ audit.result = Num(0) <=>
              \/ audit.raw.v = 0
              \/ /\ audit.minimum # NotGiven
                 /\ audit.raw.v # 0
                 /\ audit.raw.v < YarnAuditSeverityBits[audit.minimum]
         /\ audit.result # Num(0) => audit.result = audit.raw
         /\ (audit.raw = Num(4) /\ audit.minimum = "high") => audit.result = Num(0)
         /\ (audit.raw = Num(9) /\ audit.minimum = "high") => audit.result = Num(9)
    /\ audit.minimum = NotGiven => audit.result = audit.raw

\* raw status 4 with minimum high was turned into 0, with the notice printed
C9_Witness ==
  /\ audit.pc = "done"
  /\ audit.raw = Num(4) /\ audit.minimum = "high"
  /\ audit.result = Num(0)
  /\ audit.msgs = <<[stream |-> "stdout", text |-> IgnoreNotice]>>

---------------------------------------------------------------------------
(* C10 *)

RECURSIVE BitOr(_, _)
BitOr(a, b) ==
  IF a = 0 THEN b
  ELSE IF b = 0 THEN a
  ELSE (IF a % 2 = 1 \/ b % 2 = 1 THEN 1 ELSE 0) + 2 * BitOr(a \div 2, b \div 2)

RECURSIVE BitAnd(_, _)
BitAnd(a, b) ==
  IF a = 0 \/ b = 0 THEN 0
  ELSE (IF a % 2 = 1 /\ b % 2 = 1 THEN 1 ELSE 0) + 2 * BitAnd(a \div 2, b \div 2)

RECURSIVE BitOrAll(_)
BitOrAll(S) == IF S = {} THEN 0 ELSE LET x == CHOOSE x \in S : TRUE IN BitOr(x, BitOrAll(S \ {x}))

\* the bits of the severities strictly below m, and of those at or above m
BitsBelow(m) ==
  {YarnAuditSeverityBits[s] : s \in {x \in SeverityChoices : SeverityRank(x) < SeverityRank(m)}}

BitsAtOrAbove(m) ==
  {YarnAuditSeverityBits[s] : s \in {x \in SeverityChoices : SeverityRank(x) >= SeverityRank(m)}}

\* C10, as stated: the severities info < low < moderate < high < critical each
\* have a bit of their own in the status, so that with a minimum m a raw status
\* that is a union of bits of severities strictly below m gives 0, and a raw
\* status that contains the bit of a severity at or above m gives non-zero.
C10_SeverityBitsThreshold ==
  (audit.pc = "done" /\ audit.minimum # NotGiven /\ IsNum(audit.raw) /\ audit.raw.v >= 0) =>
    /\ (\E T \in SUBSET BitsBelow(audit.minimum) : audit.raw.v = BitOrAll(T))
         => audit.result = Num(0)
    /\ (\E b \in BitsAtOrAbove(audit.minimum) : BitAnd(audit.raw.v, b) = b)
         => audit.result # Num(0)

---------------------------------------------------------------------------
(* C11 *)

\* C11, as stated: the audit sub-command launches its child with the flat
\* argument list 'audit', then '--level' and the level when --level is given,
\* then '--json' when --json is set, every element a string and no other
\* element, and with the console streams inherited.
C11_FlatYarnArgs ==
  audit.pc \in {"done", "thrown"} =>
    /\ audit.spawn.stdio = "inherit"
    /\ audit.spawn.args =
         [i \in 1..Len(AuditYarnArgs(audit.level, audit.json)) |->
            JsString(AuditYarnArgs(audit.level, audit.json)[i])]

---------------------------------------------------------------------------
(* The build-dist sub-command (jetsam-subcmd-build-dist.ts) and the dispatcher
   (jetsam.ts). A path is the sequence of its components, a file name the
   sequence of its parts between dots ("start.sh" is <<"start", "sh">>), and the
   content of a source file is named by the file it came from. *)

STANDARD_FILES == << <<"CHANGELOG.md">>, <<"LICENSE">>, <<"README.md">>, <<".npmignore">> >>

\* path.basename
basename(p) == p[Len(p)]

ContentOf(p) == [src |-> p]

\* what an earlier build left in the output
Stale == [src |-> <<"stale">>]

\* the values of --files
CallerFiles ==
  { <<>>,
    << <<"NOTICE">> >>,
    << <<"docs", "README.md">>, <<"NOTICE">> >> }

\* what stat finds at each auxiliary path: a file, nothing (ENOENT), or an
\* error other than ENOENT
AuxStats ==
  { [p \in { <<"CHANGELOG.md">>, <<"LICENSE">>, <<"README.md">>, <<".npmignore">>,
             <<"NOTICE">>, <<"docs", "README.md">> } |->
       CASE p = <<"README.md">> -> readme
         [] p = <<"NOTICE">> -> notice
         [] p = <<"docs", "README.md">> -> docs
         [] p = <<".npmignore">> -> "missing"
         [] OTHER -> "file"] :
      readme \in {"file", "missing", "error"},
      notice \in {"file", "missing"},
      docs \in {"file", "missing"} }

\* the text of package.json, or that it cannot be read
DistSlash == <<"d", "i", "s", "t", "/">>

ManifestTexts ==
  { <<"m", ":">> \o DistSlash \o <<"a">>,
    DistSlash \o <<"x", " ">> \o DistSlash,
    <<"d", "i">> \o DistSlash \o <<"s", "t", "/">>,
    <<"d", "i", "s", "t">> }

PackageFiles == {[readable |-> FALSE, text |-> <<>>]} \cup {[readable |-> TRUE, text |-> s] : s \in ManifestTexts}

\* what klaw yields for a directory, in the order it yields it: the directory
\* itself first, and every directory and file below it
Entry(rel, isFile) == [rel |-> rel, isFile |-> isFile]

ConfigTrees ==
  { [kind |-> "missing", entries |-> <<>>],
    [kind |-> "file", entries |-> <<>>],
    [kind |-> "dir", entries |-> <<Entry(<<>>, FALSE), Entry(<<"sub">>, FALSE)>>],
    [kind |-> "dir",
     entries |-> <<Entry(<<>>, FALSE), Entry(<<"a.json">>, TRUE), Entry(<<"sub">>, FALSE),
                   Entry(<<"sub", "b.json">>, TRUE)>>] }

\* a script entry: the directories below bin, and the file name split at its dots
Script(dir, name, isFile) == [dir |-> dir, name |-> name, isFile |-> isFile]

BinTrees ==
  { [kind |-> "missing", entries |-> <<>>],
    [kind |-> "file", entries |-> <<>>],
    [kind |-> "dir", entries |-> <<Script(<<>>, <<>>, FALSE), Script(<<>>, <<"README">>, TRUE)>>],
    [kind |-> "dir", entries |-> <<Script(<<>>, <<>>, FALSE), Script(<<>>, <<"start", "sh">>, TRUE)>>],
    [kind |-> "dir",
     entries |-> <<Script(<<>>, <<>>, FALSE), Script(<<>>, <<"a">>, FALSE),
                   Script(<<"a">>, <<"start", "sh">>, TRUE), Script(<<>>, <<"stop", "bash">>, TRUE),
                   Script(<<>>, <<"run", "sh", "sh">>, TRUE)>>],
    [kind |-> "dir",
     entries |-> <<Script(<<>>, <<>>, FALSE), Script(<<>>, <<"x", "sh">>, FALSE),
                   Script(<<"x.sh">>, <<"startsh">>, TRUE), Script(<<>>, <<"go", "sh">>, TRUE)>>],
    [kind |-> "dir",
     entries |-> <<Script(<<>>, <<>>, FALSE), Script(<<"a">>, <<"start", "sh">>, TRUE),
                   Script(<<"b">>, <<"start", "sh">>, TRUE)>>],
    [kind |-> "dir",
     entries |-> <<Script(<<>>, <<>>, FALSE), Script(<<"b">>, <<"start", "sh">>, TRUE),
                   Script(<<"a">>, <<"start", "sh">>, TRUE)>>] }

NoFiles == [p \in {} |-> Stale]

\* the output directory before the run: absent, or left by an earlier build
Outputs ==
  { [dirs |-> {}, manifest |-> NoStr, root |-> NoFiles, config |-> NoFiles, bin |-> NoFiles],
    [dirs |-> {"root", "config", "bin"}, manifest |-> Str(<<"o", "l", "d">>),
     root |-> (<<"README.md">> :> Stale),
     config |-> (<<"a.json">> :> Stale),
     bin |-> (<<"start">> :> Stale) @@ (<<"old">> :> Stale)] }

\* a copy that leaves an existing destination as it is
copyKeepsExisting(files, dst, content) == files @@ (dst :> content)

\* fs-extra copy(src, dst, { overwrite: true }) into one of the output's
\* directories: dst holds the content of src, whatever it held before
copy(files, dst, content) == (dst :> content) @@ files

RECURSIVE RemoveDist(_)
\* c.replace(/dist\//gm, ''): one pass from the left, each match dropped and the
\* scan resumed after it
RemoveDist(s) ==
  IF s = <<>> THEN <<>>
  ELSE IF Len(s) >= 5 /\ SubSeq(s, 1, 5) = DistSlash THEN RemoveDist(SubSeq(s, 6, Len(s)))
  ELSE <<Head(s)>> \o RemoveDist(Tail(s))

\* the entry passes /\.sh$/: a dot, then sh, at the end of the path
HasShExtension(name) == Len(name) >= 2 /\ name[Len(name)] = "sh"

\* the destination name that keeps the extension
StripShKeepsName(name) == name

\* path.basename(file).replace(/\.sh$/, '')
StripSh(name) == IF HasShExtension(name) THEN SubSeq(name, 1, Len(name) - 1) ELSE name

\* isExistingPath: null for ENOENT, the stats otherwise; any other stat error is
\* rethrown (the caller's kind = "error")
isExistingPath(kind) == kind # "missing"

\* isExistingDir
isExistingDir(kind) == IF isExistingPath(kind) THEN kind = "dir" ELSE FALSE

\* a failure reported as a return value of 1
BuildThrowReturnsOne(st) == [st EXCEPT !.pc = "returned", !.result = Num(1)]

\* a rejection of execute: the failure travels up to main
BuildThrow(st) == [st EXCEPT !.pc = "thrown"]

\* one copy made by the run: into which output directory, to which name, of what
Copied(area, dst, content) == [area |-> area, dst |-> dst, content |-> content]

\* line 74
BuildMkdirpStep(st) == [st EXCEPT !.out.dirs = @ \cup {"root"}, !.pc = "manifest"]

\* lines 91-97 and filterFile: read, filter, write
CopyPackageManifestStep(st) ==
  IF ~st.package.readable
    THEN BuildThrow(st)
    ELSE [st EXCEPT !.out.manifest = Str(RemoveDist(st.package.text)), !.pc = "aux"]

RECURSIVE copyAuxiliaryFiles(_, _)
\* lines 109-114, over the files that remain
copyAuxiliaryFiles(st, allFiles) ==
  IF allFiles = <<>> THEN [st EXCEPT !.pc = "config"]
  ELSE LET file == Head(allFiles)
           dst == <<basename(file)>>
       IN  IF st.aux[file] = "error" THEN BuildThrow(st)
           ELSE IF ~isExistingPath(st.aux[file]) THEN copyAuxiliaryFiles(st, Tail(allFiles))
           ELSE copyAuxiliaryFiles(
                  [st EXCEPT !.out.root = copy(@, dst, ContentOf(file)),
                             !.copies = Append(@, Copied("root", dst, ContentOf(file)))],
                  Tail(allFiles))

\* lines 106-115
CopyAuxiliaryFilesStep(st) == copyAuxiliaryFiles(st, st.files \o STANDARD_FILES)

RECURSIVE copyConfigEntries(_, _)
\* lines 133-140, over the entries klaw has yet to yield; copy makes the
\* directories of dst when they are missing
copyConfigEntries(st, entries) ==
  IF entries = <<>> THEN [st EXCEPT !.pc = "scripts"]
  ELSE LET entry == Head(entries)
           content == ContentOf(<<"config">> \o entry.rel)
       IN  IF entry.isFile
             THEN copyConfigEntries(
                    [st EXCEPT !.out.config = copy(@, entry.rel, content),
                               !.out.dirs = @ \cup {"config"},
                               !.copies = Append(@, Copied("config", entry.rel, content))],
                    Tail(entries))
             ELSE copyConfigEntries(st, Tail(entries))

\* lines 124-141
CopyConfigFilesStep(st) ==
  IF ~isExistingDir(st.configTree.kind)
    THEN [st EXCEPT !.pc = "scripts"]
    ELSE copyConfigEntries(st, st.configTree.entries)

\* findFiles with the filter of lines 159-161
findScripts(entries) == SelectSeq(entries, LAMBDA e : e.isFile /\ HasShExtension(e.name))

\* execute's return 0 (line 81)
BuildReturn(st) == [st EXCEPT !.pc = "returned", !.result = Num(0)]

RECURSIVE copyScriptFiles(_, _)
\* lines 168-171
copyScriptFiles(st, scripts) ==
  IF scripts = <<>> THEN BuildReturn(st)
  ELSE LET file == Head(scripts)
           dstFile == StripSh(file.name)
           content == ContentOf(<<"bin">> \o file.dir \o file.name)
       IN  copyScriptFiles(
             [st EXCEPT !.out.bin = copy(@, dstFile, content),
                        !.copies = Append(@, Copied("bin", dstFile, content))],
             Tail(scripts))

\* copyScripts making the output bin before it looks for scripts
CopyScriptsStepMkdirFirst(st) ==
  IF ~isExistingDir(st.binTree.kind) THEN BuildReturn(st)
  ELSE copyScriptFiles([st EXCEPT !.out.dirs = @ \cup {"bin"}], findScripts(st.binTree.entries))

\* lines 150-172, and then line 81
CopyScriptsStep(st) ==
  IF ~isExistingDir(st.binTree.kind) THEN BuildReturn(st)
  ELSE IF Len(findScripts(st.binTree.entries)) < 1 THEN BuildReturn(st)
  ELSE copyScriptFiles([st EXCEPT !.out.dirs = @ \cup {"bin"}], findScripts(st.binTree.entries))

\* the sub-commands main may be asked for: build-dist, another registered
\* sub-command, or a name that is not registered
SubCmds == {"build-dist", "other", "unknown"}

UnknownSubCmd == "Error: ${subCmd}: Unknown sub-command requested"

FailedToExecute == "Error: Failed to execute jetsam command: ${err}"

\* jetsam.ts lines 60-72: find the executor and call it
MainDispatchStep(st) ==
  CASE st.subCmd = "unknown" ->
         [st EXCEPT !.pc = "exited", !.exit = Num(1), !.msgs = Append(@, UnknownSubCmd)]
    [] st.subCmd = "other" -> [st EXCEPT !.pc = "other"]
    [] OTHER -> [st EXCEPT !.pc = "mkdirp"]

\* how the execute of another sub-command ends: it returns a status or it throws
OtherOutcomes ==
  {[thrown |-> FALSE, code |-> Num(n)] : n \in 0..MaxExitStatus} \cup {[thrown |-> TRUE, code |-> Undef]}

OtherExecuteStep(st, o) ==
  IF o.thrown THEN BuildThrow(st) ELSE [st EXCEPT !.pc = "returned", !.result = o.code]

\* jetsam.ts lines 72-78: process.exit(code), or the catch's process.exit(1)
MainExitStep(st) ==
  IF st.pc = "thrown"
    THEN [st EXCEPT !.pc = "exited", !.exit = Num(1), !.msgs = Append(@, FailedToExecute)]
    ELSE [st EXCEPT !.pc = "exited", !.exit = st.result]

NewBuild(subCmd, files, aux, package, configTree, binTree, out) ==
  [pc |-> "main", subCmd |-> subCmd, files |-> files, aux |-> aux, package |-> package,
   configTree |-> configTree, binTree |-> binTree, before |-> out, out |-> out,
   copies |-> <<>>, result |-> Undef, exit |-> Undef, msgs |-> <<>>]

MainDispatch ==
  /\ build.pc = "main"
  /\ build' = MainDispatchStep(build)
  /\ UNCHANGED <<runs, audit, child, ask>>

OtherExecute ==
  /\ build.pc = "other"
  /\ \E o \in OtherOutcomes : build' = OtherExecuteStep(build, o)
  /\ UNCHANGED <<runs, audit, child, ask>>

BuildMkdirp ==
  /\ build.pc = "mkdirp"
  /\ build' = BuildMkdirpStep(build)
  /\ UNCHANGED <<runs, audit, child, ask>>

CopyPackageManifest ==
  /\ build.pc = "manifest"
  /\ build' = CopyPackageManifestStep(build)
  /\ UNCHANGED <<runs, audit, child, ask>>

CopyAuxiliaryFiles ==
  /\ build.pc = "aux"
  /\ build' = CopyAuxiliaryFilesStep(build)
  /\ UNCHANGED <<runs, audit, child, ask>>

CopyConfigFiles ==
  /\ build.pc = "config"
  /\ build' = CopyConfigFilesStep(build)
  /\ UNCHANGED <<runs, audit, child, ask>>

CopyScripts ==
  /\ build.pc = "scripts"
  /\ build' = CopyScriptsStep(build)
  /\ UNCHANGED <<runs, audit, child, ask>>

MainExit ==
  /\ build.pc \in {"returned", "thrown"}
  /\ build' = MainExitStep(build)
  /\ UNCHANGED <<runs, audit, child, ask>>

\* jetsam asked for any sub-command; build-dist with any --files, in any of the
\* source trees and over any of the outputs
BuildInit ==
  /\ runs = NoRuns /\ audit = NoAudit /\ child = NoChild /\ ask = NoAsk
  /\ \E subCmd \in SubCmds, files \in CallerFiles, aux \in AuxStats, package \in PackageFiles,
        configTree \in ConfigTrees, binTree \in BinTrees, out \in Outputs :
       /\ subCmd # "build-dist" =>
            /\ files = <<>> /\ ~package.readable /\ out.dirs = {}
            /\ configTree.kind = "missing" /\ binTree.kind = "missing"
            /\ \A p \in DOMAIN aux : aux[p] \in {"file", "missing"} /\ (p \in {<<"README.md">>, <<"NOTICE">>, <<"docs", "README.md">>} => aux[p] = "missing")
       /\ build = NewBuild(subCmd, files, aux, package, configTree, binTree, out)

BuildNext ==
  \/ MainDispatch \/ OtherExecute \/ BuildMkdirp \/ CopyPackageManifest
  \/ CopyAuxiliaryFiles \/ CopyConfigFiles \/ CopyScripts \/ MainExit

BuildSpec == BuildInit /\ [][BuildNext]_vars

---------------------------------------------------------------------------
(* C12 *)

\* a completed run of build-dist
BuildCompleted == build.pc \in {"returned", "exited"} /\ build.subCmd = "build-dist" /\ build.result = Num(0)

\* the positions, in klaw's order, of the files under <src>/bin whose name ends in .sh
ShScripts ==
  IF build.binTree.kind # "dir" THEN {}
  ELSE { i \in 1..Len(build.binTree.entries) :
           LET e == build.binTree.entries[i]
           IN  e.isFile /\ Len(e.name) >= 2 /\ e.name[Len(e.name)] = "sh" }

\* the name of entry i without its .sh, and the content of entry i
DstNameOf(i) == LET e == build.binTree.entries[i] IN SubSeq(e.name, 1, Len(e.name) - 1)

ScriptContentOf(i) == LET e == build.binTree.entries[i] IN [src |-> <<"bin">> \o e.dir \o e.name]

\* the copies the run made into the output bin
BinCopies == {build.copies[k] : k \in {j \in 1..Len(build.copies) : build.copies[j].area = "bin"}}

\* only .sh files are copied into the output bin, and a tree whose only file is
\* bin/start.sh yields exactly bin/start
OnlyScriptsCopied ==
  /\ \A c \in BinCopies : \E i \in ShScripts : c.dst = DstNameOf(i) /\ c.content = ScriptContentOf(i)
  /\ (build.binTree.kind = "dir"
       /\ \A i \in 1..Len(build.binTree.entries) :
            build.binTree.entries[i].isFile =>
              build.binTree.entries[i] = [dir |-> <<>>, name |-> <<"start", "sh">>, isFile |-> TRUE])
      => {c.dst : c \in BinCopies} \subseteq {<<"start">>}

\* C12, as stated: after build-dist completes, for every .sh file at any depth
\* under <src>/bin the output bin holds a file named by its basename without
\* .sh, with that file's content; files without .sh are never copied, and a
\* tree with only bin/start.sh yields exactly bin/start.
C12_EveryScriptCopied ==
  BuildCompleted =>
    /\ \A i \in ShScripts :
         /\ DstNameOf(i) \in DOMAIN build.out.bin
         /\ build.out.bin[DstNameOf(i)] = ScriptContentOf(i)
    /\ OnlyScriptsCopied

\* C12, amended: for every .sh file under <src>/bin the output bin holds a file
\* named by its basename without .sh; it holds the content of the last .sh file
\* of that basename that the traversal found (scripts of the same basename in
\* different directories overwrite one another); files without .sh are never
\* copied, and a tree with only bin/start.sh yields exactly bin/start.
C12_LastScriptOfABasenameWins ==
  BuildCompleted =>
    /\ \A i \in ShScripts :
         /\ DstNameOf(i) \in DOMAIN build.out.bin
         /\ LET last == CHOOSE j \in ShScripts :
                          /\ DstNameOf(j) = DstNameOf(i)
                          /\ \A k \in ShScripts : DstNameOf(k) = DstNameOf(i) => k <= j
            IN  build.out.bin[DstNameOf(i)] = ScriptContentOf(last)
    /\ OnlyScriptsCopied

\* a completed run over a/start.sh and b/start.sh: bin/start holds b's script
C12_Witness ==
  /\ BuildCompleted
  /\ \E i \in ShScripts, j \in ShScripts :
       /\ i < j /\ DstNameOf(i) = DstNameOf(j)
       /\ build.out.bin[<<"start">>] = ScriptContentOf(j)
       /\ build.out.bin[<<"start">>] # ScriptContentOf(i)

---------------------------------------------------------------------------
(* C13 *)

\* the caller-supplied list followed by the fixed list
ListedFiles ==
  build.files \o << <<"CHANGELOG.md">>, <<"LICENSE">>, <<"README.md">>, <<".npmignore">> >>

\* the positions of the listed files that exist
ExistingListed == {i \in 1..Len(ListedFiles) : build.aux[ListedFiles[i]] = "file"}

BaseOf(i) == <<ListedFiles[i][Len(ListedFiles[i])]>>

\* a listed file that does not exist is skipped: nothing is copied from it, and
\* a name that no existing listed file has is as it was before the run
MissingFilesCreateNothing ==
  /\ \A i \in 1..Len(ListedFiles) \ ExistingListed :
       \A k \in 1..Len(build.copies) : build.copies[k].content # [src |-> ListedFiles[i]]
  /\ \A n \in (DOMAIN build.out.root \cup DOMAIN build.before.root) \ {BaseOf(i) : i \in ExistingListed} :
       /\ n \in DOMAIN build.before.root /\ n \in DOMAIN build.out.root
       /\ build.out.root[n] = build.before.root[n]

\* C13, as stated: after build-dist completes, for every listed file that
\* exists the output root holds a file named by its basename with the content
\* of that file, whatever was there before; a listed file that does not exist
\* is skipped without error and creates nothing.
C13_EveryListedFileCopied ==
  BuildCompleted =>
    /\ \A i \in ExistingListed :
         /\ BaseOf(i) \in DOMAIN build.out.root
         /\ build.out.root[BaseOf(i)] = [src |-> ListedFiles[i]]
    /\ MissingFilesCreateNothing

\* C13, amended: for every listed file that exists the output root holds a file
\* named by its basename, whatever was there before, with the content of the
\* last existing listed file of that basename (the fixed list is copied after
\* the caller's, so a caller's docs/README.md is overwritten by README.md); a
\* listed file that does not exist is skipped without error and creates nothing.
C13_LastListedFileOfABasenameWins ==
  BuildCompleted =>
    /\ \A i \in ExistingListed :
         /\ BaseOf(i) \in DOMAIN build.out.root
         /\ LET last == CHOOSE j \in ExistingListed :
                          /\ BaseOf(j) = BaseOf(i)
                          /\ \A k \in ExistingListed : BaseOf(k) = BaseOf(i) => k <= j
            IN  build.out.root[BaseOf(i)] = [src |-> ListedFiles[last]]
    /\ MissingFilesCreateNothing

\* a completed run that was given docs/README.md, with README.md existing too
\* and a README.md of an earlier build in the output, and with .npmignore missing
C13_Witness ==
  /\ BuildCompleted
  /\ \E i \in ExistingListed : ListedFiles[i] = <<"docs", "README.md">>
  /\ build.aux[<<"README.md">>] = "file"
  /\ <<"README.md">> \in DOMAIN build.before.root
  /\ build.out.root[<<"README.md">>] = [src |-> <<"README.md">>]
  /\ <<".npmignore">> \notin DOMAIN build.out.root

---------------------------------------------------------------------------
(* C14 *)

\* a run of build-dist, at any point of it
BuildRunning == build.pc # "off" /\ build.subCmd = "build-dist"

\* nothing was created or changed under an output subdirectory
ConfigUntouched ==
  /\ build.out.config = build.before.config
  /\ ("config" \in build.out.dirs) = ("config" \in build.before.dirs)
  /\ \A k \in 1..Len(build.copies) : build.copies[k].area # "config"

BinUntouched ==
  /\ build.out.bin = build.before.bin
  /\ ("bin" \in build.out.dirs) = ("bin" \in build.before.dirs)
  /\ BinCopies = {}

---------------------------------------------------------------------------
(* The process runner's promises (SubCommandHelpers.ts lines 167-270): the
   child's events arrive one at a time, in any order and any number *)

MaxChildEvents == 3

\* the exported calls that spawn a child
RunnerCalls == {"executeCmd", "executeCmdSilently", "getOutputFromCmd"}

\* the exit codes a 'close' event carries (null when a signal ended the child)
CloseCodes == {Num(n) : n \in 0..MaxExitStatus} \cup {Null}

\* the blocks a child writes to its standard output
Chunks == { <<"a">>, <<NL>> }

RECURSIVE Concat(_)
\* Buffer.concat(buffers).toString()
Concat(buffers) == IF buffers = <<>> THEN <<>> ELSE Head(buffers) \o Concat(Tail(buffers))

\* what the caller of the exported call gets once the promise is settled: the
\* rejection, or the value the wrapper returns
Awaited(call, kind, code, text) ==
  LET o == [rej |-> kind = "reject", val |-> code]
  IN  CASE kind = "reject" -> [thrown |-> TRUE, code |-> Undef, text |-> NoStr]
        [] call = "executeCmd" -> [thrown |-> FALSE, code |-> executeCmd(o), text |-> NoStr]
        [] call = "executeCmdSilently" -> [thrown |-> FALSE, code |-> executeCmdSilently(o), text |-> NoStr]
        [] OTHER -> [thrown |-> FALSE, code |-> Undef,
                     text |-> IF text.def THEN Str(Chomp(text.s)) ELSE NoStr]

\* a call of resolve or reject: every call is kept, and the first one settles
\* the promise and wakes the caller
Settle(st, kind, code, text) ==
  LET s1 == [st EXCEPT !.settles = Append(@, [kind |-> kind, code |-> code, text |-> text])]
  IN  IF st.settles = <<>>
        THEN [s1 EXCEPT !.result = Awaited(st.call, kind, code, text)]
        ELSE s1

\* lines 180-187 and 233-238: spawn gave a child, or gave null
ChildSpawnStep(st, gotChild) ==
  IF gotChild THEN [st EXCEPT !.pc = "running"]
  ELSE Settle([st EXCEPT !.pc = "nochild"], "resolve", Undef, NoStr)

\* lines 191 and 246: !fulfilled++ && reject(err)
ChildErrorStep(st) ==
  LET s1 == [st EXCEPT !.fulfilled = @ + 1, !.events = Append(@, [e |-> "error", code |-> Undef, chunk |-> <<>>])]
  IN  IF st.fulfilled = 0 THEN Settle(s1, "reject", Undef, NoStr) ELSE s1

\* a 'close' handler that resolves whatever fulfilled says
ChildCloseStepUnguarded(st, code) ==
  LET s1 == [st EXCEPT !.fulfilled = @ + 1, !.events = Append(@, [e |-> "close", code |-> code, chunk |-> <<>>])]
  IN  IF st.call = "getOutputFromCmd"
        THEN Settle(s1, "resolve", Undef,
                    getOutputFromCmdNoChomp([k |-> "close", code |-> code, out |-> Concat(st.buffers)]))
        ELSE Settle(s1, "resolve", code, NoStr)

\* line 192: !fulfilled++ && resolve(code); lines 247-256: if (!fulfilled) {
\* ++fulfilled; resolve(code === 0 ? the captured text : undefined) }
ChildCloseStep(st, code) ==
  LET s1 == [st EXCEPT !.events = Append(@, [e |-> "close", code |-> code, chunk |-> <<>>])]
  IN  IF st.call = "getOutputFromCmd"
        THEN IF st.fulfilled = 0
               THEN Settle([s1 EXCEPT !.fulfilled = @ + 1], "resolve", Undef,
                           getOutputFromCmdNoChomp([k |-> "close", code |-> code, out |-> Concat(st.buffers)]))
               ELSE s1
        ELSE IF st.fulfilled = 0
               THEN Settle([s1 EXCEPT !.fulfilled = @ + 1], "resolve", code, NoStr)
               ELSE [s1 EXCEPT !.fulfilled = @ + 1]

\* line 242: buffers.push(buffer)
ChildDataStep(st, buffer) ==
  [st EXCEPT !.buffers = Append(@, buffer), !.events = Append(@, [e |-> "data", code |-> Undef, chunk |-> buffer])]

NewChild(call) ==
  [pc |-> "start", call |-> call, fulfilled |-> 0, buffers |-> <<>>, events |-> <<>>,
   settles |-> <<>>, result |-> [thrown |-> FALSE, code |-> Undef, text |-> NoStr]]

ChildSpawn ==
  /\ child.pc = "start"
  /\ \E gotChild \in BOOLEAN : child' = ChildSpawnStep(child, gotChild)
  /\ UNCHANGED <<runs, audit, build, ask>>

ChildError ==
  /\ child.pc = "running" /\ Len(child.events) < MaxChildEvents
  /\ child' = ChildErrorStep(child)
  /\ UNCHANGED <<runs, audit, build, ask>>

ChildClose ==
  /\ child.pc = "running" /\ Len(child.events) < MaxChildEvents
  /\ \E code \in CloseCodes : child' = ChildCloseStep(child, code)
  /\ UNCHANGED <<runs, audit, build, ask>>

ChildData ==
  /\ child.pc = "running" /\ Len(child.events) < MaxChildEvents
  /\ child.call = "getOutputFromCmd"
  /\ \E buffer \in Chunks : child' = ChildDataStep(child, buffer)
  /\ UNCHANGED <<runs, audit, build, ask>>

ChildInit ==
  /\ runs = NoRuns /\ audit = NoAudit /\ build = NoBuild /\ ask = NoAsk
  /\ \E call \in RunnerCalls : child = NewChild(call)

ChildNext == ChildSpawn \/ ChildError \/ ChildClose \/ ChildData

ChildSpec == ChildInit /\ [][ChildNext]_vars

---------------------------------------------------------------------------
(* C15 *)

\* the 'error' and 'close' events the child has emitted, in order
Lifecycle == SelectSeq(child.events, LAMBDA ev : ev.e \in {"error", "close"})

\* C15: for every order and number of 'error' and 'close' events, resolve or
\* reject is called exactly once, by the first of them: a reject when it is an
\* 'error', a resolve when it is a 'close'; later events call neither.
C15_SettledExactlyOnce ==
  child.pc = "running" =>
    /\ Len(child.settles) <= 1
    /\ Lifecycle = <<>> => child.settles = <<>>
    /\ Lifecycle # <<>> =>
         /\ Len(child.settles) = 1
         /\ child.settles[1].kind = (IF Lifecycle[1].e = "error" THEN "reject" ELSE "resolve")
         /\ child.result.thrown = (Lifecycle[1].e = "error")

\* an 'error' came first and two 'close' events after it: one reject, no resolve
C15_Witness ==
  /\ child.pc = "running"
  /\ Len(Lifecycle) = 3
  /\ Lifecycle[1].e = "error" /\ Lifecycle[2].e = "close" /\ Lifecycle[3].e = "close"
  /\ child.settles = <<[kind |-> "reject", code |-> Undef, text |-> NoStr]>>

---------------------------------------------------------------------------
(* C16 *)

\* the position in child.events of the first 'close'
FirstClose == CHOOSE i \in 1..Len(child.events) :
                /\ child.events[i].e = "close"
                /\ \A j \in 1..(i - 1) : child.events[j].e # "close"

RECURSIVE Written(_)
\* what the child wrote to its standard output in the first n events
Written(n) == IF n = 0 THEN <<>> ELSE Written(n - 1) \o child.events[n].chunk

\* a text without its last character when that is a newline
WithoutOneNewline(s) == IF s # <<>> /\ s[Len(s)] = "\n" THEN SubSeq(s, 1, Len(s) - 1) ELSE s

\* C16: the call rejects only when the child's first event was a launch
\* 'error'; when the child closes first, with whatever exit status, the call
\* resolves: executeCmd and executeCmdSilently with that exit status,
\* getOutputFromCmd with what the child had written, less one trailing newline
\* if there is one, when the status is 0, and with undefined when it is not 0.
C16_RejectsOnlyOnLaunchError ==
  child.pc \in {"running", "nochild"} =>
    /\ child.result.thrown => (Lifecycle # <<>> /\ Lifecycle[1].e = "error")
    /\ (Lifecycle # <<>> /\ Lifecycle[1].e = "close") =>
         LET code == Lifecycle[1].code
         IN  /\ ~child.result.thrown
             /\ child.call \in {"executeCmd", "executeCmdSilently"} => child.result.code = code
             /\ child.call = "getOutputFromCmd" =>
                  child.result.text =
                    IF code = Num(0)
                      THEN [def |-> TRUE, s |-> WithoutOneNewline(Written(FirstClose))]
                      ELSE [def |-> FALSE, s |-> <<>>]

\* getOutputFromCmd of a child that wrote two newlines and exited with 0: one
\* newline is left
C16_Witness ==
  /\ child.pc = "running" /\ child.call = "getOutputFromCmd"
  /\ Lifecycle # <<>> /\ Lifecycle[1] = [e |-> "close", code |-> Num(0), chunk |-> <<>>]
  /\ Written(FirstClose) = <<"\n", "\n">>
  /\ child.result.text = [def |-> TRUE, s |-> <<"\n">>]

---------------------------------------------------------------------------
(* The interactive prompt (SubCommandHelpers.ts lines 19-76): getInput's loop,
   one question and one line at a time, and confirm on top of it *)

MaxLines == 3

\* the lines a user may type
TypedLines == {"", "yes", "no", "minor", "maybe"}

\* the values of the choices parameter: undefined, or a list
NoChoices == [def |-> FALSE, list |-> <<>>]

ChoiceLists ==
  { NoChoices,
    [def |-> TRUE, list |-> <<>>],
    [def |-> TRUE, list |-> <<"yes", "no">>],
    [def |-> TRUE, list |-> <<"major", "minor", "patch", "none">>] }

\* the values of getInput's defaultChoice parameter
DefaultChoices == {NotGiven, "yes", "minor"}

\* the values of confirm's defaultChoice parameter
ConfirmDefaults == {"true", "false", NotGiven}

\* choices.indexOf(answer) >= 0
IndexOfFound(list, answer) == \E i \in 1..Len(list) : list[i] = answer

\* choices !== undefined && choices.length > 0
HasChoices(choices) == choices.def /\ Len(choices.list) > 0

\* lines 27-34: the prompt, then the choices when there are some, then the
\* default when there are choices and a default, then '? '
FullPrompt(choices, defaultChoice) ==
  <<"${prompt}">>
    \o (IF HasChoices(choices)
          THEN <<" [${choices}]">> \o (IF defaultChoice # NotGiven THEN <<" (${defaultChoice})">> ELSE <<>>)
          ELSE <<>>)
    \o <<"? ">>

\* line 73: defaultChoice === true ? 'yes' : defaultChoice === false ? 'no' : undefined
ConfirmDefaultChoice(d) ==
  CASE d = "true" -> "yes"
    [] d = "false" -> "no"
    [] OTHER -> NotGiven

\* line 40: question(fullPrompt) is called and the loop waits for a line
AskQuestionStep(st) ==
  [st EXCEPT !.pc = "waiting", !.shown = Append(@, FullPrompt(st.choices, st.defaultChoice))]

\* the user types a line
AskAnswerStep(st, line) == [st EXCEPT !.pc = "answered", !.lines = Append(@, line)]

\* a confirm that returns true whatever the answer
AskReturnAlwaysTrue(st, answer) ==
  [st EXCEPT !.pc = "returned", !.answer = answer,
             !.confirmed = IF st.call = "confirm" THEN "true" ELSE @]

\* getInput returns, and confirm with it when it is the caller (line 75)
AskReturn(st, answer) ==
  [st EXCEPT !.pc = "returned", !.answer = answer,
             !.confirmed = IF st.call = "confirm" THEN (IF answer = "yes" THEN "true" ELSE "false") ELSE @]

\* a loop body that takes whatever was typed
AskResumeStepAnyLine(st) ==
  LET answer == st.lines[Len(st.lines)]
  IN  IF st.defaultChoice # NotGiven /\ answer = "" THEN AskReturn(st, st.defaultChoice)
      ELSE AskReturn(st, answer)

\* lines 44-59 on the line that was read
AskResumeStep(st) ==
  LET answer == st.lines[Len(st.lines)]
  IN  IF st.defaultChoice # NotGiven /\ answer = "" THEN AskReturn(st, st.defaultChoice)
      ELSE IF HasChoices(st.choices)
        THEN IF IndexOfFound(st.choices.list, answer) THEN AskReturn(st, answer)
             ELSE [st EXCEPT !.pc = "ask"]
      ELSE AskReturn(st, answer)

NewAsk(call, choices, defaultChoice) ==
  [pc |-> "ask", call |-> call, choices |-> choices, defaultChoice |-> defaultChoice,
   shown |-> <<>>, lines |-> <<>>, answer |-> "", confirmed |-> NotGiven]

AskQuestion ==
  /\ ask.pc = "ask"
  /\ ask' = AskQuestionStep(ask)
  /\ UNCHANGED <<runs, audit, build, child>>

AskAnswer ==
  /\ ask.pc = "waiting" /\ Len(ask.lines) < MaxLines
  /\ \E line \in TypedLines : ask' = AskAnswerStep(ask, line)
  /\ UNCHANGED <<runs, audit, build, child>>

AskResume ==
  /\ ask.pc = "answered"
  /\ ask' = AskResumeStep(ask)
  /\ UNCHANGED <<runs, audit, build, child>>

\* getInput with any choices and default, or confirm with any default
AskInit ==
  /\ runs = NoRuns /\ audit = NoAudit /\ build = NoBuild /\ child = NoChild
  /\ \/ \E choices \in ChoiceLists, d \in DefaultChoices : ask = NewAsk("getInput", choices, d)
     \/ \E d \in ConfirmDefaults :
          ask = NewAsk("confirm", [def |-> TRUE, list |-> <<"yes", "no">>], ConfirmDefaultChoice(d))

AskNext == AskQuestion \/ AskAnswer \/ AskResume

\* the loop's own steps are taken when they can be; the user may stop typing
AskSpec == AskInit /\ [][AskNext]_vars /\ WF_vars(AskQuestion) /\ WF_vars(AskResume)

---------------------------------------------------------------------------
(* C17 *)

ChoiceSet == {ask.choices.list[i] : i \in 1..Len(ask.choices.list)}

NonEmptyChoiceSet == ask.choices.def /\ ask.choices.list # <<>>

DefaultExists == ask.defaultChoice # "undefined"

\* a line that ends the loop: with a choice set, a member of it or the empty
\* line when a default exists; without one, any line
Acceptable(line) ==
  NonEmptyChoiceSet => (line \in ChoiceSet \/ (line = "" /\ DefaultExists))

\* what is returned for an accepted line
ValueFor(line) == IF line = "" /\ DefaultExists THEN ask.defaultChoice ELSE line

LastLine == ask.lines[Len(ask.lines)]

\* getInput at every point: it has returned only on an acceptable line, with
\* the value for that line, every line before it having been followed by a new
\* prompt; while it has not returned, no acceptable line has been read
GetInputLoop ==
  (ask.call = "getInput" /\ ask.pc # "off") =>
    /\ ask.pc = "returned" =>
         /\ ask.lines # <<>> /\ Acceptable(LastLine)
         /\ ask.answer = ValueFor(LastLine)
         /\ \A i \in 1..(Len(ask.lines) - 1) : ~Acceptable(ask.lines[i])
         /\ Len(ask.shown) = Len(ask.lines)
         /\ NonEmptyChoiceSet => ask.answer \in ChoiceSet \cup {ask.defaultChoice}
         /\ ~NonEmptyChoiceSet => Len(ask.lines) = 1
    /\ ask.pc \in {"ask", "waiting"} =>
         /\ \A i \in 1..Len(ask.lines) : ~Acceptable(ask.lines[i])
         /\ Len(ask.shown) = Len(ask.lines) + (IF ask.pc = "waiting" THEN 1 ELSE 0)

\* C17: getInput with a non-empty choice set returns only after a line that is
\* a member of the set, or an empty line when a default exists (then it returns
\* the default); every other line is followed by a new prompt, so the value
\* returned is the default or a member of the set; without a choice set the
\* first line is returned (the default when it is empty and a default exists);
\* and once the user has typed an acceptable line the call returns.
C17_GetInputReturnsAChoice ==
  /\ []GetInputLoop
  /\ (ask.call = "getInput" /\ ask.pc = "answered" /\ Acceptable(LastLine)) ~> (ask.pc = "returned")

\* getInput with a choice set and no default returned on the third line, after
\* an empty line and a line outside the set
C17_Witness ==
  /\ ask.call = "getInput" /\ ask.pc = "returned"
  /\ NonEmptyChoiceSet /\ ~DefaultExists
  /\ Len(ask.lines) = 3 /\ ask.lines[1] = "" /\ ask.lines[2] = "maybe"
  /\ ask.answer = "minor"
  /\ Len(ask.shown) = 3

---------------------------------------------------------------------------
(* C18 *)

\* the answer confirm's getInput accepted: the line typed, or the default's
\* word when the line is empty and confirm was given a default
AcceptedAnswer ==
  IF LastLine = "" /\ ask.defaultChoice = "yes" THEN "yes"
  ELSE IF LastLine = "" /\ ask.defaultChoice = "no" THEN "no"
  ELSE LastLine

\* confirm at every point: it has returned only on 'yes' or 'no', true for the
\* one and false for the other; without a default an empty line is never the
\* line it returned on
ConfirmAnswers ==
  (ask.call = "confirm" /\ ask.pc # "off") =>
    /\ ask.pc = "returned" =>
         /\ AcceptedAnswer \in {"yes", "no"}
         /\ (ask.confirmed = "true") = (AcceptedAnswer = "yes")
         /\ (ask.confirmed = "false") = (AcceptedAnswer = "no")
         /\ ask.defaultChoice = "undefined" => LastLine # ""
    /\ ask.pc # "returned" => ask.confirmed = "undefined"

\* C18: confirm returns true exactly when the accepted answer is 'yes' (typed,
\* or taken from a default of true on an empty line) and false exactly when it
\* is 'no'; called without a default, as the release workflow calls it, it
\* never accepts an empty line: the prompt is shown again.
C18_ConfirmIsYes ==
  /\ []ConfirmAnswers
  /\ (ask.call = "confirm" /\ ask.defaultChoice = "undefined" /\ ask.pc = "answered" /\ LastLine = "")
       ~> (ask.pc = "waiting" /\ Len(ask.shown) = Len(ask.lines) + 1)

\* confirm without a default returned true on 'yes' after an empty line
C18_ConfirmWitness ==
  /\ ask.call = "confirm" /\ ask.defaultChoice = "undefined"
  /\ ask.pc = "returned" /\ ask.confirmed = "true"
  /\ ask.lines = <<"", "yes">>
  /\ Len(ask.shown) = 2

---------------------------------------------------------------------------
(* C19 *)

\* package.json cannot be read, or the stat of a listed file fails with an
\* error other than not-found
FilesystemFails ==
  \/ ~build.package.readable
  \/ \E i \in 1..Len(ListedFiles) : build.aux[ListedFiles[i]] = "error"

\* C19: build-dist's execute returns only 0; when package.json cannot be read
\* or a stat fails with an error other than not-found, execute returns nothing
\* and the failure is thrown; and main exits with 1 when the sub-command
\* threw and with the status it returned otherwise.
C19_BuildReturnsZeroOrThrows ==
  /\ (build.pc # "off" /\ build.subCmd = "build-dist") =>
       /\ build.result \in {Undef, Num(0)}
       /\ build.pc = "returned" => build.result = Num(0)
       /\ FilesystemFails => (build.result = Undef /\ build.pc # "returned")
       /\ (FilesystemFails /\ build.pc = "exited") => build.exit = Num(1)
  /\ (build.pc = "exited" /\ build.subCmd # "unknown") =>
       IF build.result = Undef
         THEN build.exit = Num(1) /\ build.msgs = <<"Error: Failed to execute jetsam command: ${err}">>
         ELSE build.exit = build.result /\ build.msgs = <<>>

\* build-dist wrote the manifest, then the stat of README.md failed: jetsam
\* exited with 1
C19_Witness ==
  /\ build.subCmd = "build-dist" /\ build.pc = "exited"
  /\ build.package.readable /\ build.aux[<<"README.md">>] = "error"
  /\ build.out.manifest.def
  /\ build.exit = Num(1) /\ build.result = Undef

---------------------------------------------------------------------------
(* C20 *)

\* the commands of the merge sequence and the push of the merge
MergeSites == {"checkoutMaster", "pullMaster", "merge", "preCommitMerged", "push"}

\* the sites whose failure comes after the merge was made
AfterMergeSites == {"preCommitMerged", "push"}

CmdOfSite(site) ==
  CASE site = "checkoutMaster" -> "git checkout master"
    [] site = "pullMaster" -> "git pull --rebase"
    [] site = "merge" -> "git merge --no-ff --no-edit"
    [] site = "preCommitMerged" -> "yarn pre-commit"
    [] site = "push" -> "git push"

\* the command at site ended with a status that is not 0
FailedAt(st, site) ==
  /\ Saw(st, site) /\ ~st.seen[site].rej
  /\ st.seen[site].status # [t |-> "num", v |-> 0]

HardResetHint ==
  [stream |-> "stderr", text |-> "Error: Issue \"git reset --hard origin/master\" to undo merge"]

\* commands that would take back what the run has done
RevertingCmds ==
  { "git reset --hard origin/master", "git reset", "git revert", "git merge --abort",
    "git rebase --abort", "git checkout", "git tag -d", "git push --delete", "git branch -D" }

\* the run ended on the failed command and issued nothing that reverts
EndedWithoutReverting(st, site) ==
  /\ st.pc = "done" /\ st.result # [t |-> "num", v |-> 0]
  /\ st.log[Len(st.log)].kind = "cmd" /\ st.log[Len(st.log)].name = CmdOfSite(site)
  /\ Range(CmdNames(st)) \cap RevertingCmds = {}

\* C20, as stated: in a non-dry run every failure of the trunk checkout, the
\* trunk pull, the merge, the post-merge pre-commit verification and the push
\* of the merge ends the run with the hard-reset hint printed, and no
\* reverting command is issued.
C20_EveryMergeFailurePrintsHint ==
  \A r \in RunIds : \A site \in MergeSites :
    (~runs[r].dryRun /\ FailedAt(runs[r], site)) =>
      /\ EndedWithoutReverting(runs[r], site)
      /\ LastMsg(runs[r]) = HardResetHint

\* C20, amended: the hard-reset hint is printed when the post-merge pre-commit
\* verification or the push of the merge fails; a failed trunk checkout, trunk
\* pull or merge ends the run with its own error line only and no hint. In
\* every one of the five cases the run ends on the failed command with a
\* non-zero result and no reverting command is issued.
C20_HintOnlyAfterTheMerge ==
  \A r \in RunIds : \A site \in MergeSites :
    (~runs[r].dryRun /\ FailedAt(runs[r], site)) =>
      /\ EndedWithoutReverting(runs[r], site)
      /\ LastMsg(runs[r]).stream = "stderr"
      /\ (site \in AfterMergeSites) = (LastMsg(runs[r]) = HardResetHint)
      /\ (site \in AfterMergeSites) = (\E i \in 1..Len(runs[r].msgs) : runs[r].msgs[i] = HardResetHint)

\* a real run whose push of the merge failed: the hint is its last line
C20_Witness ==
  \E r \in RunIds :
    /\ ~runs[r].dryRun /\ FailedAt(runs[r], "push")
    /\ runs[r].pc = "done"
    /\ LastMsg(runs[r]) = HardResetHint

---------------------------------------------------------------------------
(* C21 *)

\* the lines a run wrote to the error stream, in order
ErrTexts(st) ==
  LET errs == SelectSeq(st.msgs, LAMBDA m : m.stream = "stderr")
  IN  [i \in 1..Len(errs) |-> errs[i].text]

\* the step a finished run stopped at: the changelog cross-check when the read
\* of CHANGELOG.md is the last thing it did, else the last await it went through
LastStep(st) ==
  IF st.log[Len(st.log)] = ChangelogRead
    THEN "changelog"
    ELSE CHOOSE s \in DOMAIN st.seen : \A t \in DOMAIN st.seen : Rank(t) <= Rank(s)

\* the run as it stands at a step, with nothing printed yet
Silent(st) == [st EXCEPT !.msgs = <<>>]

\* every way the step at site can go from st
StepsAt(site, st) ==
  CASE site = "branch" -> {BranchStep(st, o) : o \in OutputOutcomes(BranchOutputs)}
    [] site = "tagProbe" -> {TagProbeStep(st, o) : o \in ExecOutcomes}
    [] site = "diffIndex" -> {DiffIndexStep(st, o) : o \in OutputOutcomes(DiffIndexOutputs)}
    [] site = "revList" -> {RevListStep(st, o) : o \in OutputOutcomes(RevListOutputs)}
    [] site = "pullRelease" -> {PullReleaseStep(st, o) : o \in ExecOutcomes}
    [] site = "manifest" -> {ManifestStep(st, m) : m \in Manifests}
    [] site = "changelog" ->
         {ChangelogStep([st EXCEPT !.ignoreChangelog = FALSE, !.changelog = c]) : c \in Changelogs}
    [] site = "preCommit" -> {PreCommitStep(st, o) : o \in ExecOutcomes}
    [] site = "checkoutMaster" -> {CheckoutMasterStep(st, o) : o \in ExecOutcomes}
    [] site = "pullMaster" -> {PullMasterStep(st, o) : o \in ExecOutcomes}
    [] site = "merge" -> {MergeStep(st, o) : o \in ExecOutcomes}
    [] site = "preCommitMerged" -> {PreCommitMergedStep(st, o) : o \in ExecOutcomes}
    [] site = "push" -> {PushStep(st, o) : o \in ExecOutcomes}
    [] site = "tag" -> {TagStep(st, o) : o \in ExecOutcomes}
    [] site = "pushTag" -> {PushTagStep(st, o) : o \in ExecOutcomes}
    [] site = "semver" -> {SemverStep(st, o) : o \in OutputOutcomes(SemverOutputs)}
    [] site = "showLocal" -> {ShowLocalStep(st, o) : o \in ExecOutcomes}
    [] site = "showRemote" -> {ShowRemoteStep(st, o) : o \in ExecOutcomes}
    [] site = "checkoutNew" -> {CheckoutNewStep(st, o) : o \in ExecOutcomes}
    [] site = "yarnVersion" -> {YarnVersionStep(st, o) : o \in ExecOutcomes}
    [] site = "commit" -> {CommitStep(st, o) : o \in ExecOutcomes}
    [] site = "pushBranch" -> {PushBranchStep(st, o) : o \in ExecOutcomes}

\* the steps that report a failure on the error stream
DiagnosingSteps ==
  { "branch", "tagProbe", "diffIndex", "revList", "pullRelease", "manifest", "changelog",
    "preCommit", "checkoutMaster", "pullMaster", "merge", "preCommitMerged", "push", "tag",
    "pushTag", "semver", "showLocal", "showRemote", "checkoutNew", "yarnVersion", "commit",
    "pushBranch" }

\* what the step at site can print on the error stream when it fails
DiagnosticsOf(site, st) ==
  {ErrTexts(t) : t \in StepsAt(site, Silent(st))} \ {<<>>}

\* C21: a run that ended with a diagnostic on the error stream printed one that
\* no other step prints when it fails, so the diagnostic tells which step
\* failed; in particular a failed push of the merge and a failed post-merge
\* pre-commit verification print different messages.
C21_DiagnosticDeterminesStep ==
  \A r \in RunIds :
    (runs[r].pc = "done" /\ ErrTexts(runs[r]) # <<>>) =>
      \A site \in DiagnosingSteps \ {LastStep(runs[r])} :
        ErrTexts(runs[r]) \notin DiagnosticsOf(site, runs[r])

\* C21, away from the push of the merge: the diagnostic of every other failing
\* step is printed by that step alone
C21_DistinctExceptThePush ==
  \A r \in RunIds :
    (runs[r].pc = "done" /\ ErrTexts(runs[r]) # <<>>
       /\ LastStep(runs[r]) \notin {"push", "preCommitMerged"}) =>
      \A site \in DiagnosingSteps \ {LastStep(runs[r])} :
        ErrTexts(runs[r]) \notin DiagnosticsOf(site, runs[r])

---------------------------------------------------------------------------
(* C22 *)

\* the rev-list ran and gave its count
CountObtained(st) ==
  /\ Saw(st, "revList") /\ ~st.seen["revList"].rej /\ st.seen["revList"].out.def

\* the run stopped at the up-to-date check
StoppedAtUpToDateCheck(st) ==
  /\ st.pc = "done" /\ st.result # [t |-> "num", v |-> 0]
  /\ LastStep(st) = "revList"

\* C22: when the rev-list gives its count, the up-to-date check fails exactly
\* when the local release branch has at least one commit that origin lacks; a
\* branch with no such commit passes, also when origin has commits the local
\* branch lacks.
C22_FailsIffLocalAhead ==
  \A r \in RunIds :
    CountObtained(runs[r]) =>
      (StoppedAtUpToDateCheck(runs[r]) <=> runs[r].seen["revList"].ahead >= 1)

\* C22, as the code has it: the check fails exactly when the local branch and
\* origin differ by a commit on either side
C22_FailsIffBranchesDiffer ==
  \A r \in RunIds :
    CountObtained(runs[r]) =>
      (StoppedAtUpToDateCheck(runs[r])
         <=> (runs[r].seen["revList"].ahead >= 1 \/ runs[r].seen["revList"].behind >= 1))

\* a run whose local branch is only behind origin and that stopped at the check
C22_BehindOnlyStops ==
  \E r \in RunIds :
    /\ CountObtained(runs[r]) /\ StoppedAtUpToDateCheck(runs[r])
    /\ runs[r].seen["revList"].ahead = 0 /\ runs[r].seen["revList"].behind >= 1

---------------------------------------------------------------------------
(* C23 *)

\* the mutating commands in the order the workflow has them
MutatingSequence ==
  << "git pull --rebase", "git checkout master", "git pull --rebase",
     "git merge --no-ff --no-edit", "git push", "git tag", "git push origin",
     "git checkout -b", "yarn version --no-git-tag-version --no-commit-hooks --new-version",
     "git commit package.json -m Bump version to", "git push --set-upstream origin" >>

\* the awaits that issue them, in the same order
MutatingSites ==
  << "pullRelease", "checkoutMaster", "pullMaster", "merge", "push", "tag", "pushTag",
     "checkoutNew", "yarnVersion", "commit", "pushBranch" >>

\* the mutating commands a run issued, in order
MutatingLog(st) ==
  SelectSeq(st.log, LAMBDA e : e.kind = "cmd" /\ e.name \in Range(MutatingSequence))

ExitedZero(st, site) ==
  Saw(st, site) /\ st.seen[site] = [rej |-> FALSE, status |-> [t |-> "num", v |-> 0]]

Answered(st, site, answer) == Saw(st, site) /\ st.seen[site] = answer

\* steps 1-4: release branch, no tag yet, clean checkout, nothing ahead of origin
StepsOneToFourPassed(st) ==
  /\ BranchValid(st)
  /\ Saw(st, "tagProbe") /\ ~st.seen["tagProbe"].rej /\ ~st.seen["tagProbe"].zero
  /\ Saw(st, "diffIndex") /\ st.seen["diffIndex"].out = [def |-> TRUE, s |-> <<>>]
  /\ Saw(st, "revList") /\ st.seen["revList"].out = [def |-> TRUE, s |-> <<"0">>]
  /\ st.seen["revList"].ahead = 0

\* the branch, tag and next-branch arguments of the commands that take one
MutatingArgsRight(st) ==
  LET b == st.seen["branch"].out.s
      v == <<"v">> \o VersionOf(b)
  IN  \A i \in 1..Len(MutatingLog(st)) :
        LET e == MutatingLog(st)[i]
        IN  /\ e.name = "git merge --no-ff --no-edit" => e.arg = b
            /\ e.name \in {"git tag", "git push origin"} => e.arg = v
            /\ e.name \in {"git checkout -b", "git push --set-upstream origin"} =>
                 /\ Saw(st, "semver") /\ st.seen["semver"].out.def
                 /\ e.arg = <<"r", "e", "l", "e", "a", "s", "e", "/", "v">> \o st.seen["semver"].out.s

\* C23: in a non-dry run the mutating commands issued are a prefix of the fixed
\* sequence pull, checkout master, pull, merge, push, tag, push tag, checkout
\* -b, yarn version, commit, push --set-upstream (with the release branch, the
\* version tag and the next branch as arguments); each is issued only after the
\* one before it exited with 0, the first only after steps 1-4 passed and the
\* release was confirmed, the push only after the post-merge pre-commit
\* passed and the push was confirmed, the tag only after the push exited with 0
\* and the tag was confirmed.
C23_MutationsInFixedOrder ==
  \A r \in RunIds :
    ~runs[r].dryRun =>
      LET st == runs[r]
          n == Len(MutatingLog(st))
      IN  /\ n <= Len(MutatingSequence)
          /\ \A i \in 1..n : MutatingLog(st)[i].name = MutatingSequence[i]
          /\ \A i \in 2..n : ExitedZero(st, MutatingSites[i - 1])
          /\ n >= 1 => (StepsOneToFourPassed(st) /\ Answered(st, "confirmRelease", "yes")
                          /\ MutatingArgsRight(st))
          /\ n >= 5 => (ExitedZero(st, "preCommitMerged") /\ Answered(st, "confirmPush", "yes"))
          /\ n >= 6 => (ExitedZero(st, "push") /\ Answered(st, "confirmTag", "yes"))

\* a real run that issued all eleven mutating commands, the last exiting with 0
C23_Witness ==
  \E r \in RunIds :
    /\ ~runs[r].dryRun /\ runs[r].pc = "done"
    /\ Len(MutatingLog(runs[r])) = Len(MutatingSequence)
    /\ ExitedZero(runs[r], "pushBranch")

---------------------------------------------------------------------------
(* C24 *)

\* the probe at site ran and did not find the branch
ProbeFoundNothing(st, site) ==
  Saw(st, site) /\ st.seen[site] = [rej |-> FALSE, zero |-> FALSE]

Issued(st, name) == \E i \in 1..Len(st.log) : st.log[i].kind = "cmd" /\ st.log[i].name = name

LastLogged(st) == st.log[Len(st.log)]

\* C24: a run whose answer for the next release type is 'none' returns 0 with
\* that prompt the last thing it did (no semver, no further command); the new
\* branch is created only in a real run, with a bump kind other than 'none',
\* after semver gave a next version and both the local and the remote probe
\* returned non-zero; it is pushed only after yarn version and the commit
\* exited with 0 and the push was confirmed; and a dry run returns 0 right
\* after the two probes returned non-zero.
C24_NextBranchProvisioning ==
  \A r \in RunIds :
    LET st == runs[r]
    IN  /\ Answered(st, "nextType", "none") =>
             /\ st.pc = "done" /\ st.result = [t |-> "num", v |-> 0]
             /\ LastLogged(st) = [kind |-> "prompt", name |-> NextTypePrompt, arg |-> <<>>]
             /\ ~Issued(st, "semver -i")
        /\ Issued(st, "git checkout -b") =>
             /\ ~st.dryRun
             /\ Saw(st, "nextType") /\ st.seen["nextType"] # "none"
             /\ Saw(st, "semver") /\ ~st.seen["semver"].rej /\ st.seen["semver"].out.def
             /\ ProbeFoundNothing(st, "showLocal")
             /\ ProbeFoundNothing(st, "showRemote")
        /\ Issued(st, "git push --set-upstream origin") =>
             /\ Issued(st, "git checkout -b")
             /\ ExitedZero(st, "checkoutNew")
             /\ ExitedZero(st, "yarnVersion")
             /\ ExitedZero(st, "commit")
             /\ Answered(st, "confirmPushBranch", "yes")
        /\ (st.dryRun /\ ProbeFoundNothing(st, "showRemote")) =>
             /\ st.pc = "done" /\ st.result = [t |-> "num", v |-> 0]
             /\ LastLogged(st).kind = "cmd"
             /\ LastLogged(st).name = "git show-branch remotes/origin/"

\* a real run that pushed the new branch for a minor bump
C24_Witness ==
  \E r \in RunIds :
    /\ ~runs[r].dryRun /\ Answered(runs[r], "nextType", "minor")
    /\ Issued(runs[r], "git push --set-upstream origin")
    /\ ProbeFoundNothing(runs[r], "showLocal")

---------------------------------------------------------------------------
(* C25 *)

\* what each step writes in the log of a run
EntryNameOf(site) ==
  CASE site = "branch" -> "git branch --show-current"
    [] site = "tagProbe" -> "git rev-parse --verify --quiet"
    [] site = "diffIndex" -> "git diff-index --name-only --ignore-submodules HEAD --"
    [] site = "revList" -> "git rev-list HEAD...origin/${branch} --ignore-submodules --count"
    [] site = "confirmRelease" -> ReleasePrompt
    [] site = "pullRelease" -> "git pull --rebase"
    [] site = "manifest" -> "package.json"
    [] site = "changelog" -> "CHANGELOG.md"
    [] site = "preCommit" -> "yarn pre-commit"
    [] site = "checkoutMaster" -> "git checkout master"
    [] site = "pullMaster" -> "git pull --rebase"
    [] site = "merge" -> "git merge --no-ff --no-edit"
    [] site = "preCommitMerged" -> "yarn pre-commit"
    [] site = "confirmPush" -> "Pushing release \"${version}\" to origin ... continue"
    [] site = "push" -> "git push"
    [] site = "confirmTag" -> "Tagging release \"${version}\" ... continue"
    [] site = "tag" -> "git tag"
    [] site = "pushTag" -> "git push origin"
    [] site = "nextType" -> NextTypePrompt
    [] site = "semver" -> "semver -i"
    [] site = "showLocal" -> "git show-branch"
    [] site = "showRemote" -> "git show-branch remotes/origin/"
    [] site = "checkoutNew" -> "git checkout -b"
    [] site = "yarnVersion" -> "yarn version --no-git-tag-version --no-commit-hooks --new-version"
    [] site = "commit" -> "git commit package.json -m Bump version to"
    [] site = "confirmPushBranch" -> "Pushing new branch \"${newBranch}\" to origin ... continue"
    [] site = "pushBranch" -> "git push --set-upstream origin"

GatedSteps == Range(SiteOrder)

\* the steps a run went through
StepsTaken(st) ==
  DOMAIN st.seen \cup (IF \E i \in 1..Len(st.log) : st.log[i] = ChangelogRead THEN {"changelog"} ELSE {})

\* the gate of the step at site found a failure: a command ended with a status
\* that is not 0 (0, for a probe), gave no output or a violating output, the
\* manifest or the changelog did not pass, or a confirmation was declined
GateFailed(st, site) ==
  /\ site \in StepsTaken(st)
  /\ CASE site \in ExecSites ->
            ~st.seen[site].rej /\ st.seen[site].status # [t |-> "num", v |-> 0]
       [] site \in ConfirmSites -> st.seen[site] = "no"
       [] site \in {"tagProbe", "showLocal", "showRemote"} -> st.seen[site].zero
       [] site = "branch" -> ~st.seen[site].rej /\ ~BranchValid(st)
       [] site = "diffIndex" -> ~st.seen[site].rej /\ st.seen[site].out # [def |-> TRUE, s |-> <<>>]
       [] site = "revList" -> ~st.seen[site].rej /\ st.seen[site].out # [def |-> TRUE, s |-> <<"0">>]
       [] site = "semver" -> ~st.seen[site].rej /\ ~st.seen[site].out.def
       [] site = "manifest" -> st.seen[site].k = "unreadable" \/ ManifestDiffers(st)
       [] site = "changelog" ->
            \/ ~st.changelog.readable
            \/ ~\E i \in 1..Len(st.changelog.lines) :
                  HeadingLineMatches(st.changelog.lines[i], VersionOf(st.seen["branch"].out.s))
       [] site = "nextType" -> FALSE

\* how many entries of the log have the name
TimesLogged(st, name) == Cardinality({i \in 1..Len(st.log) : st.log[i].name = name})

\* C25: once the gate of a step has failed (a violated precondition, a command
\* with a non-zero status, a declined confirmation), the run has ended with a
\* non-zero result and the entry of that step is the last of its log: no
\* command and no prompt follows; and every command and prompt was issued once
\* for each step that issues it, so nothing was invoked a second time.
C25_FailureIsTerminal ==
  \A r \in RunIds :
    LET st == runs[r]
    IN  /\ \A site \in GatedSteps :
             GateFailed(st, site) =>
               /\ st.pc = "done" /\ st.result # [t |-> "num", v |-> 0]
               /\ LastLogged(st).name = EntryNameOf(site)
               /\ \A other \in StepsTaken(st) : Rank(other) <= Rank(site)
        /\ \A site \in GatedSteps :
             TimesLogged(st, EntryNameOf(site))
               = Cardinality({s \in StepsTaken(st) : EntryNameOf(s) = EntryNameOf(site)})

\* a real run whose merge ended with a non-zero status after two pulls
C25_Witness ==
  \E r \in RunIds :
    /\ GateFailed(runs[r], "merge") /\ runs[r].pc = "done"
    /\ TimesLogged(runs[r], "git pull --rebase") = 2
    /\ LastLogged(runs[r]).name = "git merge --no-ff --no-edit"

---------------------------------------------------------------------------
(* C26 *)

\* the run read the changelog, so the cross-check was made
ChangelogChecked(st) ==
  ~st.ignoreChangelog /\ \E i \in 1..Len(st.log) : st.log[i] = ChangelogRead

\* the cross-check let the run go on to the pre-commit verification
ChangelogPassed(st) == st.pc = "preCommit" \/ Saw(st, "preCommit")

\* C26: without --ignore-changelog the changelog cross-check passes exactly
\* when the changelog can be read and one of its lines is one or more '#', one
\* or more spaces and then the version number of the branch, character for
\* character; otherwise the run stops there with result 1.
C26_ExactHeadingOnly ==
  \A r \in RunIds :
    ChangelogChecked(runs[r]) =>
      LET exact == HasExactHeading(runs[r].changelog, VersionOf(runs[r].seen["branch"].out.s))
      IN  /\ ChangelogPassed(runs[r]) <=> exact
          /\ ~exact => (runs[r].pc = "done" /\ runs[r].result = [t |-> "num", v |-> 1]
                          /\ LastLogged(runs[r]) = ChangelogRead)

\* C26, one direction: a changelog with the exact heading always passes
C26_ExactHeadingPasses ==
  \A r \in RunIds :
    (ChangelogChecked(runs[r])
       /\ HasExactHeading(runs[r].changelog, VersionOf(runs[r].seen["branch"].out.s)))
      => ChangelogPassed(runs[r])

\* a run for 1.2.3 that passed the cross-check on the heading '# 1x2.3'
C26_WrongHeadingPasses ==
  \E r \in RunIds :
    /\ ChangelogChecked(runs[r]) /\ ChangelogPassed(runs[r])
    /\ runs[r].changelog.lines = << <<"#", " ", "1", "x", "2", ".", "3">> >>
    /\ VersionOf(runs[r].seen["branch"].out.s) = <<"1", ".", "2", ".", "3">>

---------------------------------------------------------------------------
(* C27 *)

\* where 'dist/' occurs in a text
DistAt(s) == {i \in 1..Len(s) : i + 4 <= Len(s) /\ SubSeq(s, i, i + 4) = <<"d", "i", "s", "t", "/">>}

\* the text without the characters of its occurrences of 'dist/' (two
\* occurrences never overlap: 'd' is only the first character of 'dist/')
WithoutDist(s) ==
  LET kept == {i \in 1..Len(s) : \A j \in DistAt(s) : i < j \/ i > j + 4}
      Nth(k) == CHOOSE i \in kept : Cardinality({j \in kept : j <= i}) = k
  IN  [k \in 1..Cardinality(kept) |-> s[Nth(k)]]

\* build-dist wrote the manifest
ManifestWritten ==
  /\ build.pc \notin {"off", "main", "mkdirp", "manifest"}
  /\ build.subCmd = "build-dist" /\ build.package.readable

\* C27: the manifest written to the output root is the text of package.json
\* with its occurrences of 'dist/' removed; it contains no 'dist/'; and
\* filtering it again leaves it unchanged.
C27_ManifestFreeOfDist ==
  ManifestWritten =>
    /\ build.out.manifest.s = WithoutDist(build.package.text)
    /\ DistAt(build.out.manifest.s) = {}
    /\ WithoutDist(build.out.manifest.s) = build.out.manifest.s

\* C27, the first part alone: what is written is the source text with its
\* occurrences of 'dist/' removed
C27_OccurrencesRemoved ==
  ManifestWritten => build.out.manifest.s = WithoutDist(build.package.text)

\* the manifest written from the text 'didist/st/' is 'dist/'
C27_DistLeftBehind ==
  /\ ManifestWritten
  /\ build.package.text = <<"d", "i", "d", "i", "s", "t", "/", "s", "t", "/">>
  /\ build.out.manifest.s = <<"d", "i", "s", "t", "/">>

---------------------------------------------------------------------------
(* C28 *)

\* the status of `yarn audit` is not known: it could not be run (-1) or it
\* ended without an exit code (null)
Indeterminate(status) == status = [t |-> "num", v |-> -1] \/ status = [t |-> "null", v |-> 0]

\* C28: the audit sub-command returns 0 only when `yarn audit` ran and exited
\* with 0, or with a positive status strictly below the bit value of the
\* minimum severity given; a status that is not known is never turned into 0.
C28_ZeroOnlyForAKnownStatus ==
  (audit.pc = "done" /\ audit.result = [t |-> "num", v |-> 0]) =>
    /\ ~Indeterminate(audit.raw)
    /\ audit.raw.t = "num"
    /\ \/ audit.raw.v = 0
       \/ /\ audit.minimum # "undefined"
          /\ audit.raw.v > 0
          /\ audit.raw.v < YarnAuditSeverityBits[audit.minimum]

\* C28, with no minimum severity: the result is 0 only for the exit status 0
C28_ZeroWithoutMinimum ==
  (audit.pc = "done" /\ audit.minimum = "undefined" /\ audit.result = [t |-> "num", v |-> 0]) =>
    audit.raw = [t |-> "num", v |-> 0]

\* an audit that could not be run and returned 0 because a minimum was given
C28_UnknownStatusBecameZero ==
  /\ audit.pc = "done" /\ audit.minimum # "undefined"
  /\ audit.raw = [t |-> "num", v |-> -1]
  /\ audit.result = [t |-> "num", v |-> 0]

---------------------------------------------------------------------------
(* C29 *)

ReturnedZero(st) == st.pc = "done" /\ st.result = [t |-> "num", v |-> 0]

\* steps 5-9 let the run through: the release was confirmed, the pull (made in
\* a real run only) exited with 0, the manifest has the version of the branch,
\* the changelog was not asked for or the cross-check accepted one of its
\* lines, and the pre-commit verification exited with 0
StepsFiveToNinePassed(st) ==
  /\ Answered(st, "confirmRelease", "yes")
  /\ st.dryRun \/ ExitedZero(st, "pullRelease")
  /\ Saw(st, "manifest") /\ st.seen["manifest"].k = "value" /\ ~ManifestDiffers(st)
  /\ \/ st.ignoreChangelog
     \/ /\ st.changelog.readable
        /\ \E i \in 1..Len(st.changelog.lines) :
             HeadingLineMatches(st.changelog.lines[i], VersionOf(st.seen["branch"].out.s))
  /\ ExitedZero(st, "preCommit")

\* the merge was made, verified and pushed, and the tag created and pushed
ReleasePublished(st) ==
  /\ \A site \in {"checkoutMaster", "pullMaster", "merge", "preCommitMerged", "push", "tag", "pushTag"} :
       ExitedZero(st, site)
  /\ Answered(st, "confirmPush", "yes") /\ Answered(st, "confirmTag", "yes")
  /\ Issued(st, "git push") /\ Issued(st, "git tag") /\ Issued(st, "git push origin")

\* the next branch was created, the bump committed and the branch pushed
NextBranchPublished(st) ==
  /\ \A site \in {"checkoutNew", "yarnVersion", "commit", "pushBranch"} : ExitedZero(st, site)
  /\ Answered(st, "confirmPushBranch", "yes")
  /\ Issued(st, "git push --set-upstream origin")

\* C29: a real run returns 0 only if the merge was pushed and the version tag
\* created and pushed, each command with status 0, and, for a bump kind other
\* than 'none', only if the next branch was created, committed and pushed too;
\* and a run of either mode returns 0 only if steps 1-9 let it through and no
\* confirmation was declined.
C29_ZeroMeansReleased ==
  \A r \in RunIds :
    ReturnedZero(runs[r]) =>
      /\ StepsOneToFourPassed(runs[r])
      /\ StepsFiveToNinePassed(runs[r])
      /\ \A site \in {"confirmRelease", "confirmPush", "confirmTag", "confirmPushBranch"} :
           Saw(runs[r], site) => runs[r].seen[site] = "yes"
      /\ ~runs[r].dryRun => ReleasePublished(runs[r])
      /\ (~runs[r].dryRun /\ ~Answered(runs[r], "nextType", "none")) => NextBranchPublished(runs[r])

\* a real run that returned 0 after pushing the tag, with no next branch asked for
C29_Witness ==
  \E r \in RunIds :
    /\ ~runs[r].dryRun /\ ReturnedZero(runs[r])
    /\ Answered(runs[r], "nextType", "none")
    /\ ExitedZero(runs[r], "pushTag")

====
